---- MODULE Spec2Model ----
(***************************************************************************)
(* Real-time ingestion-and-aggregation engine of the SIEM dashboard        *)
(* frontend: the recent-event store, the time-bucket histogram, the live   *)
(* statistics and the live-feed connector, as the React components and     *)
(* siemApi implement them.                                                 *)
(*                                                                         *)
(* Time is counted in minutes since the epoch; the local time zone is UTC. *)
(* Strings the code inspects (event types) are sequences of characters.    *)
(***************************************************************************)
EXTENDS Integers, Sequences, FiniteSets, TLC

VARIABLES
    page,           \* which component owns the engine state
    logs,           \* useState<LogEntry[]>: the recent-event store
    chartData,      \* useState<{bucket,count}[]>: the time histogram
    liveStats,      \* {total, critical, last24h, avgPerHour} last published
    bufferRef,      \* EventTableWrapper bufferRef.current
    flushTimerRef,  \* EventTableWrapper flushTimerRef.current: "null", "timer" (the
                    \* id of a pending timer) or "cleared" (the id of a cleared one)
    stats,          \* Index: useState<StatsResponse | null>, its histogram
    chartReqs,      \* Index.tsx: refreshCharts requests awaiting their response
    filters_bucketMinutes,  \* part_010, part_011: filters.bucketMinutes
    now,            \* the wall clock (new Date())
    nMsgs,          \* live messages handled so far by an Index page
    api,            \* which siemApi.connectWebSocket the page calls
    sock,           \* readyState of every WebSocket created, in creation order
    reconnectAttempts,  \* part_010 connectWebSocket: let reconnectAttempts
    timer,          \* delay (ms) of the pending reconnect setTimeout, 0 if none
    closedByUser,   \* EventTableWrapper: let closedByUser
    closeCalls,     \* how often the caller has closed the handle
    delivered,      \* invocations of the caller's onMessage callback
    dropSeen,       \* history: the open connection dropped abnormally since it opened
    failed,         \* history: connection attempts failed since the last open
    malformed,      \* history: messages received whose payload did not parse
    pendingFlush,   \* part_003: setLogs updaters queued for the next render
    searchQuery,    \* Index: useState(""), the search criteria of the page
    debouncedSearch,    \* EventTableWrapper: useState(searchQuery)
    debounce,       \* the pending debounce setTimeout and the criteria its callback holds
    inflight,       \* snapshot requests awaiting their response
    reqCount,       \* history: snapshot requests issued so far
    burst,          \* history: criteria changes in the current debounce window
    burstReqs,      \* history: snapshot requests caused by these changes
    lastIssued,     \* history: the criteria of the request issued last
    shownFor,       \* history: number and criteria of the request whose response
                    \* was applied last
    held,           \* the events the server has stored
    wire,           \* live messages broadcast and not yet received, in order
    resp,           \* snapshot responses on their way: what the server held
    snapEvents,     \* history: the events counted by the snapshot applied last
    liveSeen,       \* history: the events the live handler has counted
    topoIn,         \* what the server answers to the topology queries
    mapNodes,       \* NetworkMap: useNodesState, the devices in insertion order
    mapEdges,       \* NetworkMap: useEdgesState
    networkData,    \* NetworkTopology: useState<NetworkData>
    rebuilds,       \* history: rebuilds made from the present inputs
    prevGraph,      \* history: the graphs before the last rebuild
    severities,     \* EventTable: useState({critical: "", warning: "", info: ""})
    badge,          \* EventTable: the event type cell rendered last and its badge
    effects,        \* the runs of the WebSocket effect, in order: the locals of
                    \* each run (closedByUser, reconnectAttempts, its pending
                    \* reconnect setTimeout)
    conns,          \* every WebSocket created, in order: the run that made it
                    \* and its readyState
    copies,         \* history: callback invocations for the message sent last
    error,          \* Index: useState<string | null>(null); null is written "null"
    isLoading,      \* Index: useState(true); EventTableWrapper has no such
                    \* flag, written FALSE
    call,           \* the loadData call (the wrapper: the getLogs call) in
                    \* flight: the request it awaits, what the server holds,
                    \* and, as history, the engine state when it began
    loadLog,        \* history: the snapshot load that ended last
    issued          \* history: snapshot loads begun

pipeVars == <<page, logs, chartData, liveStats, bufferRef, flushTimerRef,
              stats, chartReqs, filters_bucketMinutes, now, nMsgs>>

connVars == <<api, sock, reconnectAttempts, timer, closedByUser, closeCalls,
              delivered, dropSeen, failed>>

critVars == <<searchQuery, debouncedSearch, debounce, inflight, reqCount,
              burst, burstReqs, lastIssued, shownFor>>

dashVars == <<held, wire, resp, snapEvents, liveSeen>>

topoVars == <<topoIn, mapNodes, mapEdges, networkData, rebuilds, prevGraph>>

sevVars == <<severities, badge>>

setupVars == <<effects, conns, copies>>

loadVars == <<error, isLoading, call, loadLog, issued>>

restVars == <<sevVars, setupVars, loadVars>>

auxVars == <<topoVars, restVars>>

lifeVars == <<malformed, pendingFlush, critVars, dashVars, auxVars>>

vars == <<pipeVars, connVars, lifeVars>>

----------------------------------------------------------------------------
(* Bounds of the model *)

\* capacity of the store; stands for the literal 1000 of slice(0, 1000)
StoreCap == 3
\* events buffered between two flushes
MaxBuffer == 3
\* clock ticks explored
MaxTicks == 1
\* live messages an Index page handles
MaxMsgs == 2
\* points kept in the live chart; stands for the literal 200 of slice(-200)
ChartCap == 3
\* WebSockets created by one connectWebSocket call and its reconnects
MaxSockets == 7
\* callback invocations counted
MaxDelivered == 2
\* calls of close() on the handle
MaxCloseCalls == 2
\* unparseable messages received
MaxMalformed == 2
\* setLogs updaters queued at a time
MaxPending == 2
\* snapshot loads one page begins
MaxLoads == 3
\* runs of the WebSocket effect of one component
MaxRuns == 2
\* WebSockets created by all runs of the effect
MaxConns == 4
\* DEVICE_DISCOVERED events the topology query returns
MaxDiscovery == 2
\* COMMUNICATION_PATTERN events the topology query returns
MaxPatterns == 2
\* rebuilds of the topology graph
MaxRebuilds == 2
\* criteria changes within one debounce window
MaxBurst == 5
\* snapshot requests issued
MaxReqs == 7
\* snapshot requests in flight at a time
MaxInflight == 2

----------------------------------------------------------------------------
(* Events *)

T(h, m) == h * 60 + m

ERROR == <<"E", "R", "R", "O", "R">>
INFO == <<"i", "n", "f", "o">>

Events ==
    { [id |-> 1, node_id |-> "n1", created_at |-> T(10, 2), event_type |-> ERROR,
       data |-> <<"a">>],
      [id |-> 2, node_id |-> "n1", created_at |-> T(10, 4), event_type |-> ERROR,
       data |-> <<"b">>],
      [id |-> 3, node_id |-> "n1", created_at |-> T(10, 7), event_type |-> ERROR,
       data |-> <<"a">>],
      [id |-> 4, node_id |-> "n2", created_at |-> T(9, 58), event_type |-> INFO,
       data |-> <<"b">>] }

ClockStart == T(10, 8)

Min(a, b) == IF a < b THEN a ELSE b
Max(a, b) == IF a > b THEN a ELSE b

\* Array.prototype.slice(0, n)
Slice0(s, n) == SubSeq(s, 1, Min(n, Len(s)))

\* Array.prototype.slice(-n)
SliceLast(s, n) == SubSeq(s, Max(1, Len(s) - n + 1), Len(s))

----------------------------------------------------------------------------
(* Date *)

getMinutes(t) == t % 60
getHours(t) == (t \div 60) % 24
getDay(t) == t \div 1440

\* new Date(year, month, date, hours, minutes)
DateOf(day, h, m) == day * 1440 + h * 60 + m

----------------------------------------------------------------------------
(* Strings *)

toUpperCase(s) ==
    LET up(c) == CASE c = "a" -> "A" [] c = "c" -> "C" [] c = "e" -> "E"
                   [] c = "f" -> "F" [] c = "i" -> "I" [] c = "l" -> "L"
                   [] c = "n" -> "N" [] c = "o" -> "O" [] c = "r" -> "R"
                   [] c = "t" -> "T" [] OTHER -> c
    IN  [i \in DOMAIN s |-> up(s[i])]

toLowerCase(s) ==
    LET low(c) == CASE c = "A" -> "a" [] c = "C" -> "c" [] c = "E" -> "e"
                    [] c = "F" -> "f" [] c = "I" -> "i" [] c = "L" -> "l"
                    [] c = "N" -> "n" [] c = "O" -> "o" [] c = "R" -> "r"
                    [] c = "T" -> "t" [] OTHER -> c
    IN  [i \in DOMAIN s |-> low(s[i])]

\* String.prototype.includes
includes(s, k) ==
    \E i \in 0..(Len(s) - Len(k)) : SubSeq(s, i + 1, i + Len(k)) = k

CriticalKeywords ==
    { <<"E", "R", "R", "O", "R">>,
      <<"C", "R", "I", "T", "I", "C", "A", "L">>,
      <<"F", "A", "I", "L">> }

----------------------------------------------------------------------------
(* EventTableWrapper: aggregateLogs and calculateStats *)

RECURSIVE SortAsc(_)
SortAsc(S) ==
    IF S = {} THEN <<>>
    ELSE LET m == CHOOSE x \in S : \A y \in S : x <= y
         IN  <<m>> \o SortAsc(S \ {m})

\* a variant that rounds the minute to the nearest multiple of the width
bucketKey_nearest(t, bucketMinutes) ==
    DateOf(getDay(t), getHours(t),
           ((getMinutes(t) + bucketMinutes \div 2) \div bucketMinutes) * bucketMinutes)

\* Math.floor(date.getMinutes() / bucketMinutes) * bucketMinutes, the other
\* fields of the date kept, seconds and milliseconds zeroed
bucketKey(t, bucketMinutes) ==
    DateOf(getDay(t), getHours(t), (getMinutes(t) \div bucketMinutes) * bucketMinutes)

aggregateLogs(ls, bucketMinutes) ==
    LET keys == { bucketKey(ls[i].created_at, bucketMinutes) : i \in DOMAIN ls }
        sorted == SortAsc(keys)
        cnt(k) == Cardinality({ i \in DOMAIN ls :
                                  bucketKey(ls[i].created_at, bucketMinutes) = k })
    IN  [j \in DOMAIN sorted |-> [bucket |-> sorted[j], count |-> cnt(sorted[j])]]

isCriticalType(ty) == \E k \in CriticalKeywords : includes(toUpperCase(ty), k)

\* Math.round(total / hoursElapsed), hoursElapsed = max(1, minutes / 60)
avgPerHourOf(total, minutes) ==
    IF minutes <= 60 THEN total
    ELSE (2 * total * 60 + minutes) \div (2 * minutes)

calculateStats(ls, clock) ==
    LET total == Len(ls)
        critical == Cardinality({ i \in DOMAIN ls : isCriticalType(ls[i].event_type) })
        last24h == Cardinality({ i \in DOMAIN ls :
                                   clock - ls[i].created_at <= 24 * 60 })
        firstLog == IF Len(ls) > 0 THEN ls[Len(ls)].created_at ELSE clock
    IN  [total |-> total, critical |-> critical, last24h |-> last24h,
         avgPerHour |-> avgPerHourOf(total, clock - firstLog)]

DefaultBucketMinutes == 5

----------------------------------------------------------------------------
(* The backing query API and the live feed, as section 6 of the design     *)
(* describes them: the server answers from the set D of events it holds.   *)

RECURSIVE SortDescByTime(_)
SortDescByTime(D) ==
    IF D = {} THEN <<>>
    ELSE LET m == CHOOSE x \in D : \A y \in D :
                     \/ x.created_at > y.created_at
                     \/ x.created_at = y.created_at /\ x.id >= y.id
         IN  <<m>> \o SortDescByTime(D \ {m})

\* GET /api/logs?limit=...: the most recent events first
ServerItems(D, limit) == Slice0(SortDescByTime(D), limit)

\* {total, critical, last24h, avgPerHour} of a logs response or a live message
ServerAggregates(D, clock) ==
    LET first == IF D = {} THEN clock
                 ELSE (CHOOSE x \in D : \A y \in D : x.created_at <= y.created_at).created_at
    IN  [total |-> Cardinality(D),
         critical |-> Cardinality({ x \in D : isCriticalType(x.event_type) }),
         last24h |-> Cardinality({ x \in D : clock - x.created_at <= 24 * 60 }),
         avgPerHour |-> avgPerHourOf(Cardinality(D), clock - first)]

\* GET /api/stats: timeseries, keyed by floor(timestamp / width) * width
ServerTimeseries(D, bucketMinutes) ==
    LET key(t) == (t \div bucketMinutes) * bucketMinutes
        sorted == SortAsc({ key(x.created_at) : x \in D })
    IN  [j \in DOMAIN sorted |->
            [bucket |-> sorted[j],
             count |-> Cardinality({ x \in D : key(x.created_at) = sorted[j] })]]

RECURSIVE SeqOfSet(_)
SeqOfSet(S) ==
    IF S = {} THEN <<>>
    ELSE LET m == CHOOSE x \in S : TRUE IN <<m>> \o SeqOfSet(S \ {m})

\* GET /api/stats: histogram of event types
ServerHistogram(D) ==
    LET types == SeqOfSet({ x.event_type : x \in D })
    IN  [j \in DOMAIN types |->
            [event_type |-> types[j],
             count |-> Cardinality({ x \in D : x.event_type = types[j] })]]

\* the events the server holds when it broadcasts e: ids are assigned in order
HeldAt(e) == { x \in Events : x.id <= e.id }

\* what the server can hold when it answers a query
Snapshots == { {} } \cup { HeldAt(e) : e \in Events }

----------------------------------------------------------------------------
(* Initial state: the components as mounted, before any response *)

Pages == {"EventTableWrapper", "Index.tsx", "part_010", "part_011"}

\* EventTableWrapper.tsx and its earlier version in part_003, which keeps the
\* buffer and the flush timer in variables local to the effect; bufferRef and
\* flushTimerRef stand for them
WrapperPages == {"EventTableWrapper", "part_003"}

IndexPages == {"Index.tsx", "part_010", "part_011"}

ZeroStats == [total |-> 0, critical |-> 0, last24h |-> 0, avgPerHour |-> 0]

NullStats == [isNull |-> TRUE, histogram |-> <<>>]

NoDebounce == [armed |-> FALSE, q |-> <<>>]

NothingShown == [n |-> 0, q |-> <<>>]

\* no criteria set and no request issued
CritIdle ==
    /\ searchQuery = <<>>
    /\ debouncedSearch = <<>>
    /\ debounce = NoDebounce
    /\ inflight = {}
    /\ reqCount = 0
    /\ burst = 0
    /\ burstReqs = 0
    /\ lastIssued = <<>>
    /\ shownFor = NothingShown

\* the server holds nothing yet and no snapshot has been applied
DashIdle ==
    /\ held = {}
    /\ wire = <<>>
    /\ resp = {}
    /\ snapEvents = {}
    /\ liveSeen = {}

NoGraph == [nodes |-> <<>>, edges |-> <<>>, data |-> [nodes |-> <<>>, edges |-> <<>>]]

\* no topology component is mounted
TopoIdle ==
    /\ topoIn = [logs |-> <<>>, patternLogs |-> <<>>, anomalies |-> {}]
    /\ mapNodes = <<>>
    /\ mapEdges = <<>>
    /\ networkData = [nodes |-> <<>>, edges |-> <<>>]
    /\ rebuilds = 0
    /\ prevGraph = NoGraph

NoSeverities == [critical |-> <<>>, warning |-> <<>>, info |-> <<>>]

NoBadge == [rendered |-> FALSE, eventType |-> <<>>, severity |-> "default"]

\* no event table is mounted
SevIdle ==
    /\ severities = NoSeverities
    /\ badge = NoBadge

\* no WebSocket effect has run
SetupIdle ==
    /\ effects = <<>>
    /\ conns = <<>>
    /\ copies = 0

NoCall == [at |-> "idle", D |-> {}, before |-> <<>>]

NoLoad == [n |-> 0, outcome |-> "none", D |-> {}, before |-> <<>>, after |-> <<>>]

\* no snapshot load has begun
LoadIdle ==
    /\ error = "null"
    /\ isLoading = TRUE
    /\ call = NoCall
    /\ loadLog = NoLoad
    /\ issued = 0

RestIdle == SevIdle /\ SetupIdle /\ LoadIdle

AuxIdle == TopoIdle /\ RestIdle

LifeInit ==
    /\ malformed = 0
    /\ pendingFlush = 0
    /\ CritIdle
    /\ DashIdle
    /\ AuxIdle

PipeStart ==
    /\ logs = <<>>
    /\ chartData = <<>>
    /\ liveStats = ZeroStats
    /\ bufferRef = <<>>
    /\ flushTimerRef = "null"
    /\ stats = NullStats
    /\ chartReqs = 0
    /\ filters_bucketMinutes = DefaultBucketMinutes
    /\ now = ClockStart
    /\ nMsgs = 0

PipeInit ==
    /\ page \in Pages
    /\ PipeStart

\* time passes
Tick ==
    /\ now < ClockStart + MaxTicks
    /\ now' = now + 1
    /\ UNCHANGED <<page, logs, chartData, liveStats, bufferRef, flushTimerRef,
                   stats, chartReqs, filters_bucketMinutes, nMsgs>>
    /\ UNCHANGED connVars
    /\ UNCHANGED lifeVars

----------------------------------------------------------------------------
(* EventTableWrapper *)

\* the snapshot response: siemApi.getLogs({limit: 1000, q}).then(...)
wrapper_getLogs_then(D) ==
    /\ page \in WrapperPages
    /\ LET items == ServerItems(D, StoreCap)
       IN  /\ logs' = items
           /\ chartData' = aggregateLogs(items, DefaultBucketMinutes)
           /\ liveStats' = calculateStats(items, now)
    /\ UNCHANGED <<page, bufferRef, flushTimerRef, stats, chartReqs, filters_bucketMinutes, now, nMsgs>>
    /\ UNCHANGED connVars
    /\ UNCHANGED lifeVars

\* the connectWebSocket callback: push, and start the flush timer if none
wrapper_onMessage(e) ==
    /\ page \in WrapperPages
    /\ Len(bufferRef) < MaxBuffer
    /\ bufferRef' = Append(bufferRef, e)
    /\ flushTimerRef' = IF flushTimerRef = "null" THEN "timer" ELSE flushTimerRef
    /\ UNCHANGED <<page, logs, chartData, liveStats, stats, chartReqs, filters_bucketMinutes, now, nMsgs>>
    /\ UNCHANGED connVars
    /\ UNCHANGED lifeVars

\* [...bufferRef.current, ...prev].slice(0, 1000)
flushedLogs(buffer, prev) == Slice0(buffer \o prev, StoreCap)

\* flushBuffer()
flushBuffer ==
    IF Len(bufferRef) = 0
    THEN UNCHANGED <<logs, chartData, liveStats, bufferRef>>
    ELSE LET updated == flushedLogs(bufferRef, logs)
         IN  /\ logs' = updated
             /\ chartData' = aggregateLogs(updated, DefaultBucketMinutes)
             /\ liveStats' = calculateStats(updated, now)
             /\ bufferRef' = <<>>

\* the flush timer fires: flushBuffer(); flushTimerRef.current = null
wrapper_flushTimer ==
    /\ page = "EventTableWrapper"
    /\ flushTimerRef = "timer"
    /\ flushBuffer
    /\ flushTimerRef' = "null"
    /\ UNCHANGED <<page, stats, chartReqs, filters_bucketMinutes, now, nMsgs>>
    /\ UNCHANGED connVars
    /\ UNCHANGED lifeVars

\* part_003: the setLogs updaters queued, run at the next render; each reads
\* the effect's buffer as it is when it runs
RECURSIVE part003_updaters(_, _, _)
part003_updaters(n, buffer, prev) ==
    IF n = 0 THEN prev
    ELSE part003_updaters(n - 1, buffer, flushedLogs(buffer, prev))

\* part_003: the flush timer fires: setLogs(updater); buffer = [];
\* flushTimer = null.  React runs the updater inside setLogs when the
\* component has no update pending, and otherwise queues it for the render
part003_flushTimer ==
    /\ page = "part_003"
    /\ flushTimerRef = "timer"
    /\ \/ /\ pendingFlush = 0
          /\ LET updated == flushedLogs(bufferRef, logs)
             IN  /\ logs' = updated
                 /\ chartData' = aggregateLogs(updated, DefaultBucketMinutes)
                 /\ liveStats' = calculateStats(updated, now)
          /\ UNCHANGED pendingFlush
       \/ /\ pendingFlush < MaxPending
          /\ pendingFlush' = pendingFlush + 1
          /\ UNCHANGED <<logs, chartData, liveStats>>
    /\ bufferRef' = <<>>
    /\ flushTimerRef' = "null"
    /\ UNCHANGED <<page, stats, chartReqs, filters_bucketMinutes, now, nMsgs>>
    /\ UNCHANGED connVars
    /\ UNCHANGED <<malformed, critVars, dashVars, auxVars>>

\* part_003: the component renders and the queued updaters run
part003_render ==
    /\ page = "part_003"
    /\ pendingFlush > 0
    /\ LET updated == part003_updaters(pendingFlush, bufferRef, logs)
       IN  /\ logs' = updated
           /\ chartData' = aggregateLogs(updated, DefaultBucketMinutes)
           /\ liveStats' = calculateStats(updated, now)
    /\ pendingFlush' = 0
    /\ UNCHANGED <<page, bufferRef, flushTimerRef, stats, chartReqs,
                   filters_bucketMinutes, now, nMsgs>>
    /\ UNCHANGED connVars
    /\ UNCHANGED <<malformed, critVars, dashVars, auxVars>>

\* the parent renders with a new onStatsUpdate function (part_012 passes an
\* inline arrow), so the WebSocket effect is cleaned up and set up again:
\* the cleanup clears the flush timer and leaves its id in flushTimerRef
wrapper_effectRerun ==
    /\ page = "EventTableWrapper"
    /\ flushTimerRef' = IF flushTimerRef = "timer" THEN "cleared" ELSE flushTimerRef
    /\ UNCHANGED <<page, logs, chartData, liveStats, bufferRef, stats, chartReqs,
                   filters_bucketMinutes, now, nMsgs>>
    /\ UNCHANGED connVars
    /\ UNCHANGED lifeVars

----------------------------------------------------------------------------
(* The Index pages: Index.tsx, and its earlier versions part_010, part_011 *)

selectedNode == "n1"

filters_eventType == <<>>

\* the search strings a user types
Queries == { <<>>, <<"a">>, <<"b">> }

matchesEventType(e, eventType) ==
    \/ eventType = <<>>
    \/ toLowerCase(e.event_type) = toLowerCase(eventType)

matchesSearch(e, q) ==
    \/ q = <<>>
    \/ includes(toLowerCase(e.event_type), toLowerCase(q))
    \/ includes(toLowerCase(e.data), toLowerCase(q))

\* the events a query of this page selects among those the server holds
Scoped(D) ==
    IF page = "Index.tsx" THEN { x \in D : x.node_id = selectedNode } ELSE D

\* the same for a request made with the search string q: the server selects
\* by case-insensitive substring
ScopedFor(D, q) == { x \in Scoped(D) : matchesSearch(x, q) }

\* loadData once both of its requests have answered
Index_loadData_then(D) ==
    /\ page \in IndexPages
    /\ stats' = [isNull |-> FALSE, histogram |-> ServerHistogram(Scoped(D))]
    /\ liveStats' = ServerAggregates(Scoped(D), now)
    /\ chartData' = ServerTimeseries(Scoped(D), filters_bucketMinutes)
    /\ logs' = ServerItems(Scoped(D), StoreCap)
    /\ UNCHANGED <<page, bufferRef, flushTimerRef, chartReqs, filters_bucketMinutes, now, nMsgs>>
    /\ UNCHANGED connVars
    /\ UNCHANGED lifeVars

\* FilterPanel "Chart Granularity" of part_010 and part_011; its options are
\* 1, 5, 15, 30, 60 and 360 minutes
bucketOptions == {5, 360}

\* handleFiltersChange({bucketMinutes})
Index_setBucketMinutes(w) ==
    /\ page \in {"part_010", "part_011"}
    /\ w # filters_bucketMinutes
    /\ filters_bucketMinutes' = w
    /\ UNCHANGED <<page, logs, chartData, liveStats, bufferRef, flushTimerRef,
                   stats, chartReqs, now, nMsgs>>
    /\ UNCHANGED connVars
    /\ UNCHANGED lifeVars

\* setLogs of the live-message handler
Index_setLogs(log, prev) ==
    CASE page = "Index.tsx" -> Slice0(<<log>> \o prev, StoreCap)
      [] page = "part_010" -> <<log>> \o Slice0(prev, StoreCap - 1)
      [] page = "part_011" -> <<log>> \o prev

\* part_010 setChartData: count the message in the bucket of the current minute
Index_setChartData(prev, clock) ==
    LET nowBucket == clock
        hit == { i \in DOMAIN prev : prev[i].bucket = nowBucket }
        updated ==
            IF hit # {}
            THEN LET idx == CHOOSE i \in hit : \A j \in hit : i <= j
                 IN  [prev EXCEPT ![idx].count = @ + 1]
            ELSE Append(prev, [bucket |-> nowBucket, count |-> 1])
    IN  SliceLast(updated, ChartCap)

\* part_010 setStats: count the message in the histogram of event types
Index_setStats(prev, log) ==
    IF prev.isNull THEN prev
    ELSE LET h == prev.histogram
             hit == { i \in DOMAIN h : h[i].event_type = log.event_type }
         IN  [prev EXCEPT !.histogram =
                 IF hit # {}
                 THEN LET idx == CHOOSE i \in hit : \A j \in hit : i <= j
                      IN  [h EXCEPT ![idx].count = @ + 1]
                 ELSE Append(h, [event_type |-> log.event_type, count |-> 1])]

\* whether the handler ingests the message or returns early
Index_accepts(log) ==
    CASE page = "Index.tsx" -> log.node_id = selectedNode
      [] page = "part_010" ->
            matchesEventType(log, filters_eventType) /\ matchesSearch(log, searchQuery)
      [] page = "part_011" -> TRUE

\* the connectWebSocket callback of the page
Index_onMessage(log) ==
    /\ page \in IndexPages
    /\ nMsgs < MaxMsgs
    /\ nMsgs' = nMsgs + 1
    /\ IF Index_accepts(log)
       THEN /\ logs' = Index_setLogs(log, logs)
            /\ liveStats' = ServerAggregates(HeldAt(log), now)
            /\ chartData' = IF page = "part_010"
                            THEN Index_setChartData(chartData, now)
                            ELSE chartData
            /\ stats' = IF page = "part_010" THEN Index_setStats(stats, log) ELSE stats
            /\ chartReqs' = IF page = "Index.tsx" THEN chartReqs + 1 ELSE chartReqs
       ELSE UNCHANGED <<logs, liveStats, chartData, stats, chartReqs>>
    /\ UNCHANGED <<page, bufferRef, flushTimerRef, filters_bucketMinutes, now>>
    /\ UNCHANGED connVars
    /\ UNCHANGED lifeVars

\* Index.tsx: the 30 s interval calls refreshCharts
Index_refreshInterval ==
    /\ page = "Index.tsx"
    /\ chartReqs < MaxMsgs
    /\ chartReqs' = chartReqs + 1
    /\ UNCHANGED <<page, logs, chartData, liveStats, bufferRef, flushTimerRef,
                   stats, filters_bucketMinutes, now, nMsgs>>
    /\ UNCHANGED connVars
    /\ UNCHANGED lifeVars

\* Index.tsx: a refreshCharts request answers
Index_refreshCharts_then(D) ==
    /\ page = "Index.tsx"
    /\ chartReqs > 0
    /\ chartReqs' = chartReqs - 1
    /\ stats' = [isNull |-> FALSE, histogram |-> ServerHistogram(Scoped(D))]
    /\ chartData' = ServerTimeseries(Scoped(D), DefaultBucketMinutes)
    /\ UNCHANGED <<page, logs, liveStats, bufferRef, flushTimerRef, filters_bucketMinutes, now, nMsgs>>
    /\ UNCHANGED connVars
    /\ UNCHANGED lifeVars

----------------------------------------------------------------------------

----------------------------------------------------------------------------
(* The stream connector: siemApi.connectWebSocket and its callers          *)

maxReconnectAttempts == 5

reconnectDelay == 1000

\* EventTableWrapper: setTimeout(connect, 2000)
wrapperReconnectDelay == 2000

\* Header isConnected={true}: what the pages show of the connection
isConnected == TRUE

\* close codes: 1000 normal closure, 1005 no status received, 1006 abnormal
NormalClosure == 1000

\* the codes a close event can carry, by the state the socket was in:
\* an attempt that fails and a socket closed before it opened give 1006;
\* the peer or the network ends an open connection with 1000 or 1006;
\* close() without a code on an open socket gives 1005, or 1000 if the
\* server answers the closing handshake with it
CloseCodes(state) ==
    CASE state = "CONNECTING" -> {1006}
      [] state = "ABORTING" -> {1006}
      [] state = "OPEN" -> {1000, 1006}
      [] state = "CLOSING" -> {1000, 1005}
      [] OTHER -> {}

\* which onclose handler socket s carries when its close event fires
Handler(s) ==
    CASE page = "EventTableWrapper" -> "wrapper"
      [] page = "Index.tsx" /\ s = 1 -> "page"
      [] api = "part_010" -> "connector"
      [] OTHER -> "none"

\* a variant that keeps the counter when the socket opens
onopenAttempts_keep(attempts) == attempts

\* ws.onopen of part_010: reconnectAttempts = 0
onopenAttempts(attempts) == 0

\* ws.onclose of part_010: whether a reconnect is scheduled
shouldReconnect(code, attempts) ==
    code # NormalClosure /\ attempts < maxReconnectAttempts

\* a variant that restarts the count at every reconnect it schedules
oncloseAttempts_restart(code, attempts) ==
    IF shouldReconnect(code, attempts) THEN 1 ELSE attempts

\* ws.onclose of part_010: reconnectAttempts++
oncloseAttempts(code, attempts) ==
    IF shouldReconnect(code, attempts) THEN attempts + 1 ELSE attempts

\* ws.onclose of part_010: reconnectDelay * Math.pow(2, reconnectAttempts - 1),
\* reconnectAttempts being the counter after its increment
backoffDelay(attemptsAfter) == reconnectDelay * 2 ^ (attemptsAfter - 1)

\* the socket opens
ws_onopen(s) ==
    /\ s \in DOMAIN sock
    /\ sock[s] = "CONNECTING"
    /\ sock' = [sock EXCEPT ![s] = "OPEN"]
    /\ reconnectAttempts' = IF api = "part_010"
                            THEN onopenAttempts(reconnectAttempts)
                            ELSE reconnectAttempts
    /\ dropSeen' = FALSE
    /\ failed' = 0
    /\ UNCHANGED <<api, timer, closedByUser, closeCalls, delivered>>
    /\ UNCHANGED pipeVars
    /\ UNCHANGED lifeVars

\* a message carrying the event e arrives on an open socket: the callback is
\* invoked. The callback of EventTableWrapper pushes e into bufferRef.current
\* and starts the flush timer if flushTimerRef.current is null; the callbacks
\* of the Index pages are the Index_onMessage steps.
ws_onmessage(s, e) ==
    /\ s \in DOMAIN sock
    /\ sock[s] = "OPEN"
    /\ delivered < MaxDelivered
    /\ delivered' = delivered + 1
    /\ IF page = "EventTableWrapper"
       THEN /\ bufferRef' = Append(bufferRef, e)
            /\ flushTimerRef' = IF flushTimerRef = "null" THEN "timer" ELSE flushTimerRef
       ELSE UNCHANGED <<bufferRef, flushTimerRef>>
    /\ UNCHANGED <<api, sock, reconnectAttempts, timer, closedByUser, closeCalls,
                   dropSeen, failed>>
    /\ UNCHANGED <<page, logs, chartData, liveStats, stats, chartReqs,
                   filters_bucketMinutes, now, nMsgs>>
    /\ UNCHANGED lifeVars

\* the connector keeps no count of the messages it drops: the catch branch
\* of ws.onmessage only writes to the console
droppedCount == 0

\* a message arrives whose payload JSON.parse rejects: the catch branch runs,
\* the callback is not invoked
ws_onmessage_malformed(s) ==
    /\ s \in DOMAIN sock
    /\ sock[s] = "OPEN"
    /\ malformed < MaxMalformed
    /\ malformed' = malformed + 1
    /\ UNCHANGED <<pendingFlush, critVars, dashVars, auxVars>>
    /\ UNCHANGED connVars
    /\ UNCHANGED pipeVars

\* the close event of socket s, with the handler the socket carries
ws_onclose(s, code) ==
    /\ s \in DOMAIN sock
    /\ code \in CloseCodes(sock[s])
    /\ sock' = [sock EXCEPT ![s] = "CLOSED"]
    /\ dropSeen' = (dropSeen \/ (sock[s] = "OPEN" /\ code # NormalClosure))
    /\ failed' = IF sock[s] = "CONNECTING" THEN failed + 1 ELSE failed
    /\ CASE Handler(s) = "connector" ->
              /\ reconnectAttempts' = oncloseAttempts(code, reconnectAttempts)
              /\ timer' = IF shouldReconnect(code, reconnectAttempts)
                          THEN backoffDelay(reconnectAttempts')
                          ELSE timer
         [] Handler(s) = "wrapper" ->
              /\ timer' = IF ~closedByUser THEN wrapperReconnectDelay ELSE timer
              /\ UNCHANGED reconnectAttempts
         [] OTHER -> UNCHANGED <<reconnectAttempts, timer>>
    /\ UNCHANGED <<api, closedByUser, closeCalls, delivered>>
    /\ UNCHANGED pipeVars
    /\ UNCHANGED lifeVars

\* the reconnect timer fires: connect() creates the next WebSocket
reconnectTimer ==
    /\ timer # 0
    /\ Len(sock) < MaxSockets
    /\ timer' = 0
    /\ sock' = Append(sock, "CONNECTING")
    /\ UNCHANGED <<api, reconnectAttempts, closedByUser, closeCalls, delivered,
                   dropSeen, failed>>
    /\ UNCHANGED pipeVars
    /\ UNCHANGED lifeVars

\* the socket the caller's cleanup closes: the Index pages hold the socket
\* connectWebSocket returned, EventTableWrapper the one its connect() made last
closeTarget == IF page = "EventTableWrapper" THEN Len(sock) ELSE 1

\* WebSocket.close()
closing(state) ==
    CASE state = "CONNECTING" -> "ABORTING"
      [] state = "OPEN" -> "CLOSING"
      [] OTHER -> state

\* the effect cleanup of the caller; EventTableWrapper also clears its flush
\* timer: if (flushTimerRef.current) clearTimeout(flushTimerRef.current)
cleanup ==
    /\ closeCalls < MaxCloseCalls
    /\ closeCalls' = closeCalls + 1
    /\ closedByUser' = IF page = "EventTableWrapper" THEN TRUE ELSE closedByUser
    /\ sock' = [sock EXCEPT ![closeTarget] = closing(@)]
    /\ flushTimerRef' = IF page = "EventTableWrapper" /\ flushTimerRef = "timer"
                        THEN "cleared"
                        ELSE flushTimerRef
    /\ UNCHANGED <<api, reconnectAttempts, timer, delivered, dropSeen, failed>>
    /\ UNCHANGED <<page, logs, chartData, liveStats, bufferRef, stats, chartReqs,
                   filters_bucketMinutes, now, nMsgs>>
    /\ UNCHANGED lifeVars

\* the page has mounted and called connectWebSocket once
ConnInit ==
    /\ PipeInit
    /\ \/ api = "part_010" /\ page \in IndexPages
       \/ api = "siemApi.ts" /\ page \in {"Index.tsx", "EventTableWrapper"}
    /\ sock = <<"CONNECTING">>
    /\ reconnectAttempts = 0
    /\ timer = 0
    /\ closedByUser = FALSE
    /\ closeCalls = 0
    /\ delivered = 0
    /\ dropSeen = FALSE
    /\ failed = 0
    /\ LifeInit

ConnNext ==
    \/ \E s \in 1..MaxSockets : ws_onopen(s)
    \/ \E s \in 1..MaxSockets, e \in Events : ws_onmessage(s, e)
    \/ \E s \in 1..MaxSockets : ws_onmessage_malformed(s)
    \/ \E s \in 1..MaxSockets, code \in {1000, 1005, 1006} : ws_onclose(s, code)
    \/ reconnectTimer
    \/ cleanup
    \/ wrapper_flushTimer

SpecConn == ConnInit /\ [][ConnNext]_vars

----------------------------------------------------------------------------

\* the pipeline on its own: no connection is modelled, messages just arrive
ConnIdle ==
    /\ api = "siemApi.ts"
    /\ sock = <<>>
    /\ reconnectAttempts = 0
    /\ timer = 0
    /\ closedByUser = FALSE
    /\ closeCalls = 0
    /\ delivered = 0
    /\ dropSeen = FALSE
    /\ failed = 0

Init == PipeInit /\ ConnIdle /\ LifeInit

Next ==
    \/ Tick
    \/ \E D \in Snapshots : wrapper_getLogs_then(D)
    \/ \E e \in Events : wrapper_onMessage(e)
    \/ wrapper_flushTimer
    \/ wrapper_effectRerun
    \/ \E D \in Snapshots : Index_loadData_then(D)
    \/ \E e \in Events : Index_onMessage(e)
    \/ \E w \in bucketOptions : Index_setBucketMinutes(w)
    \/ Index_refreshInterval
    \/ \E D \in Snapshots : Index_refreshCharts_then(D)

Spec == Init /\ [][Next]_vars

----------------------------------------------------------------------------
(* The buffer and its flushes, in both versions of the wrapper *)

FlushInit ==
    /\ page \in WrapperPages
    /\ PipeStart
    /\ ConnIdle
    /\ LifeInit

FlushNext ==
    \/ Tick
    \/ \E D \in Snapshots : wrapper_getLogs_then(D)
    \/ \E e \in Events : wrapper_onMessage(e)
    \/ wrapper_flushTimer
    \/ part003_flushTimer
    \/ part003_render

SpecFlush == FlushInit /\ [][FlushNext]_vars

----------------------------------------------------------------------------
(* Criteria changes, debouncing and snapshot requests *)

CritPages == {"EventTableWrapper", "Index.tsx", "part_010"}

\* what the server holds when it answers
ServerHolds == Events

Request(n, q) == [n |-> n, q |-> q, isMounted |-> TRUE]

\* cleanup of the snapshot effect of EventTableWrapper: isMounted = false
Unmounted(rs) == { [r EXCEPT !.isMounted = FALSE] : r \in rs }

\* the debounce effect runs: setTimeout(..., 300) in EventTableWrapper,
\* setTimeout(loadData, 400) in part_010; Index.tsx has no such effect
debounceFor(q) ==
    IF page = "Index.tsx" THEN NoDebounce ELSE [armed |-> TRUE, q |-> q]

\* a snapshot request for q is sent; rs are the requests still awaited
issue(q, rs) ==
    /\ reqCount < MaxReqs
    /\ Cardinality(rs) < MaxInflight
    /\ inflight' = rs \cup { Request(reqCount + 1, q) }
    /\ reqCount' = reqCount + 1
    /\ lastIssued' = q

\* the criteria change is one more of the current debounce window
InWindow == debounce.armed /\ burst > 0

\* Header onChange calls setSearchQuery(q) and the page renders. part_010:
\* the "Initial load" effect calls loadData() and the debounce effect restarts
\* its timer. Index.tsx: the effect on [loadData] calls loadData().
\* EventTableWrapper, rendered by the Index of part_012 with an inline
\* onStatsUpdate: the debounce effect restarts its timer and the snapshot
\* effect is cleaned up and run again with debouncedSearch.
setSearchQuery(q) ==
    /\ page \in CritPages
    /\ q # searchQuery
    /\ InWindow => burst < MaxBurst
    /\ searchQuery' = q
    /\ debounce' = debounceFor(q)
    /\ burst' = IF InWindow THEN burst + 1 ELSE 1
    /\ burstReqs' = IF InWindow THEN burstReqs + 1 ELSE 1
    /\ IF page = "EventTableWrapper"
       THEN issue(debouncedSearch, Unmounted(inflight))
       ELSE issue(q, inflight)
    /\ UNCHANGED <<debouncedSearch, shownFor, malformed, pendingFlush>>
    /\ UNCHANGED <<dashVars, auxVars>>
    /\ UNCHANGED pipeVars
    /\ UNCHANGED connVars

\* the debounce timer fires. part_010: loadData(). EventTableWrapper:
\* setDebouncedSearch(searchQuery), and if the value is new the snapshot
\* effect is cleaned up and run again.
debounceTimer ==
    /\ page \in CritPages
    /\ debounce.armed
    /\ debounce' = NoDebounce
    /\ IF page = "EventTableWrapper" /\ debounce.q = debouncedSearch
       THEN UNCHANGED <<debouncedSearch, inflight, reqCount, lastIssued, burstReqs>>
       ELSE /\ burstReqs' = IF burst > 0 THEN burstReqs + 1 ELSE burstReqs
            /\ IF page = "EventTableWrapper"
               THEN /\ debouncedSearch' = debounce.q
                    /\ issue(debounce.q, Unmounted(inflight))
               ELSE /\ issue(debounce.q, inflight)
                    /\ UNCHANGED debouncedSearch
    /\ UNCHANGED <<searchQuery, burst, shownFor, malformed, pendingFlush>>
    /\ UNCHANGED <<dashVars, auxVars>>
    /\ UNCHANGED pipeVars
    /\ UNCHANGED connVars

\* EventTableWrapper: the response to request r arrives. if (!isMounted)
\* return; otherwise the store, histogram and statistics are set, the parent
\* renders with a new onStatsUpdate, and the snapshot effect runs again.
wrapper_getLogs_resolve(r) ==
    /\ page = "EventTableWrapper"
    /\ r \in inflight
    /\ IF r.isMounted
       THEN /\ LET items == ServerItems(ScopedFor(ServerHolds, r.q), StoreCap)
               IN  /\ logs' = items
                   /\ chartData' = aggregateLogs(items, DefaultBucketMinutes)
                   /\ liveStats' = calculateStats(items, now)
            /\ shownFor' = [n |-> r.n, q |-> r.q]
            /\ issue(debouncedSearch, Unmounted(inflight \ {r}))
            /\ burstReqs' = IF burst > 0 THEN burstReqs + 1 ELSE burstReqs
       ELSE /\ inflight' = inflight \ {r}
            /\ UNCHANGED <<logs, chartData, liveStats, shownFor, reqCount,
                           lastIssued, burstReqs>>
    /\ UNCHANGED <<searchQuery, debouncedSearch, debounce, burst, malformed, pendingFlush>>
    /\ UNCHANGED <<dashVars, auxVars>>
    /\ UNCHANGED <<page, bufferRef, flushTimerRef, stats, chartReqs,
                   filters_bucketMinutes, now, nMsgs>>
    /\ UNCHANGED connVars

\* Index.tsx, part_010: both responses of the loadData call r have arrived
Index_loadData_resolve(r) ==
    /\ page \in CritPages \cap IndexPages
    /\ r \in inflight
    /\ inflight' = inflight \ {r}
    /\ LET S == ScopedFor(ServerHolds, r.q)
       IN  /\ stats' = [isNull |-> FALSE, histogram |-> ServerHistogram(S)]
           /\ liveStats' = ServerAggregates(S, now)
           /\ chartData' = ServerTimeseries(S, filters_bucketMinutes)
           /\ logs' = ServerItems(S, StoreCap)
    /\ shownFor' = [n |-> r.n, q |-> r.q]
    /\ UNCHANGED <<searchQuery, debouncedSearch, debounce, reqCount, burst,
                   burstReqs, lastIssued, malformed, pendingFlush>>
    /\ UNCHANGED <<dashVars, auxVars>>
    /\ UNCHANGED <<page, bufferRef, flushTimerRef, chartReqs, filters_bucketMinutes, now, nMsgs>>
    /\ UNCHANGED connVars

\* the page as mounted: the mount effects have sent the first request and
\* started the debounce timer
CritInit ==
    /\ page \in CritPages
    /\ PipeStart
    /\ ConnIdle
    /\ malformed = 0
    /\ pendingFlush = 0
    /\ DashIdle
    /\ AuxIdle
    /\ searchQuery = <<>>
    /\ debouncedSearch = <<>>
    /\ debounce = debounceFor(<<>>)
    /\ inflight = { Request(1, <<>>) }
    /\ reqCount = 1
    /\ burst = 0
    /\ burstReqs = 0
    /\ lastIssued = <<>>
    /\ shownFor = NothingShown

CritNext ==
    \/ \E q \in Queries : setSearchQuery(q)
    \/ debounceTimer
    \/ \E r \in inflight : wrapper_getLogs_resolve(r)
    \/ \E r \in inflight : Index_loadData_resolve(r)
    \/ \E log \in Events : Index_onMessage(log)

SpecCrit == CritInit /\ [][CritNext]_vars

----------------------------------------------------------------------------
(* Dashboard: snapshot totals and live increments *)

DashPages == {"Dashboard.tsx", "part_013"}

\* String.prototype.trim()
RECURSIVE trim(_)
trim(s) ==
    IF s # <<>> /\ Head(s) = " " THEN trim(Tail(s))
    ELSE IF s # <<>> /\ s[Len(s)] = " " THEN trim(SubSeq(s, 1, Len(s) - 1))
    ELSE s

\* ['ERROR','CRITICAL','FAIL','ACTION_FAILED'].includes(eventType.toUpperCase().trim())
isCritical(eventType) ==
    trim(toUpperCase(eventType)) \in
        CriticalKeywords \cup
        { <<"A", "C", "T", "I", "O", "N", "_", "F", "A", "I", "L", "E", "D">> }

\* the events a query of the dashboard selects: Dashboard.tsx asks for
\* node_id: selectedNode, the global dashboard of part_013 for all
DashScoped(D) ==
    IF page = "Dashboard.tsx" THEN { x \in D : x.node_id = selectedNode } ELSE D

\* the server stores the next event and broadcasts it to the live feed
server_insert ==
    /\ page \in DashPages
    /\ \E e \in Events :
          /\ e.id = Cardinality(held) + 1
          /\ held' = held \cup {e}
          /\ wire' = Append(wire, e)
    /\ UNCHANGED <<resp, snapEvents, liveSeen>>
    /\ UNCHANGED <<malformed, pendingFlush, critVars, auxVars>>
    /\ UNCHANGED pipeVars
    /\ UNCHANGED connVars

\* the server answers a snapshot request of loadData / loadGlobalStats (mount,
\* the 10 s interval of part_013) from what it holds
server_answer ==
    /\ page \in DashPages
    /\ held \notin resp
    /\ resp' = resp \cup {held}
    /\ UNCHANGED <<held, wire, snapEvents, liveSeen>>
    /\ UNCHANGED <<malformed, pendingFlush, critVars, auxVars>>
    /\ UNCHANGED pipeVars
    /\ UNCHANGED connVars

\* the response arrives: setLiveStats / setGlobalStats with the totals of the
\* response; Dashboard.tsx also sets stats, chartData and logs
Dashboard_loadData_then(D) ==
    /\ page \in DashPages
    /\ D \in resp
    /\ resp' = resp \ {D}
    /\ liveStats' = ServerAggregates(DashScoped(D), now)
    /\ IF page = "Dashboard.tsx"
       THEN /\ stats' = [isNull |-> FALSE, histogram |-> ServerHistogram(DashScoped(D))]
            /\ chartData' = ServerTimeseries(DashScoped(D), DefaultBucketMinutes)
            /\ logs' = ServerItems(DashScoped(D), StoreCap)
       ELSE UNCHANGED <<stats, chartData, logs>>
    /\ snapEvents' = DashScoped(D)
    /\ UNCHANGED <<held, wire, liveSeen>>
    /\ UNCHANGED <<malformed, pendingFlush, critVars, auxVars>>
    /\ UNCHANGED <<page, bufferRef, flushTimerRef, chartReqs, filters_bucketMinutes, now, nMsgs>>
    /\ UNCHANGED connVars

\* the connectWebSocket callback: total + 1, critical + 1 if isCritical;
\* Dashboard.tsx ignores other nodes, stores the event and calls refreshCharts()
Dashboard_onMessage ==
    /\ page \in DashPages
    /\ wire # <<>>
    /\ wire' = Tail(wire)
    /\ LET log == Head(wire)
       IN  IF page = "Dashboard.tsx" /\ log.node_id # selectedNode
           THEN UNCHANGED <<liveStats, logs, chartReqs, liveSeen>>
           ELSE /\ liveStats' =
                      [liveStats EXCEPT
                          !.total = @ + 1,
                          !.critical = @ + (IF isCritical(log.event_type) THEN 1 ELSE 0)]
                /\ logs' = IF page = "Dashboard.tsx"
                           THEN Slice0(<<log>> \o logs, StoreCap)
                           ELSE logs
                /\ chartReqs' = IF page = "Dashboard.tsx" THEN chartReqs + 1 ELSE chartReqs
                /\ liveSeen' = liveSeen \cup {log}
    /\ UNCHANGED <<held, resp, snapEvents>>
    /\ UNCHANGED <<malformed, pendingFlush, critVars, auxVars>>
    /\ UNCHANGED <<page, chartData, bufferRef, flushTimerRef, stats,
                   filters_bucketMinutes, now, nMsgs>>
    /\ UNCHANGED connVars

DashInit ==
    /\ page \in DashPages
    /\ PipeStart
    /\ ConnIdle
    /\ LifeInit

DashNext ==
    \/ server_insert
    \/ server_answer
    \/ \E D \in resp : Dashboard_loadData_then(D)
    \/ Dashboard_onMessage

SpecDash == DashInit /\ [][DashNext]_vars

----------------------------------------------------------------------------
(* NetworkMap and NetworkTopology: the topology graph *)

\* device addresses, with the octets of each
Octets ==
    [ip \in {"192.168.1.1", "192.168.1.20", "10.0.0.5"} |->
        CASE ip = "192.168.1.1" -> <<192, 168, 1, 1>>
          [] ip = "192.168.1.20" -> <<192, 168, 1, 20>>
          [] ip = "10.0.0.5" -> <<10, 0, 0, 5>>]

Addresses == DOMAIN Octets

\* ip.endsWith('.' + n); false for a hostname that is no address
endsWithOctet(ip, n) ==
    ip \in Addresses /\ Octets[ip][Len(Octets[ip])] = n

\* hostname.includes('External'), for the hostnames that occur
includesExternal(hostname) == hostname = "External-cam"

\* the data of a DEVICE_DISCOVERED event that the regular expression
\* /IP:\s*([^,]+),\s*MAC:\s*([^,]+),\s*Hostname:\s*(.*)/ matches
DiscoveryLogs ==
    { [event_type |-> "DEVICE_DISCOVERED",
       data |-> [match |-> TRUE, ip |-> ip, mac |-> "aa:bb", hostname |-> h]] :
         ip \in Addresses, h \in {"None", "External-cam"} }

\* "Devices A and B", with "(n connections)" where connections > 0; and one
\* event whose data the regular expression does not match
PatternLogs ==
    { [event_type |-> "COMMUNICATION_PATTERN",
       data |-> [match |-> TRUE, from |-> p[1], to |-> p[2], connections |-> 0]] :
         p \in { x \in Addresses \X Addresses : x[1] # x[2] } }
    \cup
    { [event_type |-> "COMMUNICATION_PATTERN",
       data |-> [match |-> TRUE, from |-> "192.168.1.1", to |-> "192.168.1.20",
                 connections |-> 2]],
      [event_type |-> "COMMUNICATION_PATTERN",
       data |-> [match |-> FALSE, from |-> "", to |-> "", connections |-> 0]] }

AnomalyFeeds ==
    { {},
      { [type |-> "ROGUE_DEVICE", node_ip |-> "192.168.1.20"],
        [type |-> "PORT_SCAN", node_ip |-> "192.168.1.1"] } }

\* anomalies.filter(a => a.type === 'ROGUE_DEVICE').map(a => a.node_id || a.node_ip)
rogueIpsOf(anomalies) ==
    { a.node_ip : a \in { x \in anomalies : x.type = "ROGUE_DEVICE" } }

\* deviceMap[dev.ip] = dev: an object keeps the position of a key it has
put(deviceMap, dev) ==
    IF \E i \in DOMAIN deviceMap : deviceMap[i].ip = dev.ip
    THEN [i \in DOMAIN deviceMap |->
             IF deviceMap[i].ip = dev.ip THEN dev ELSE deviceMap[i]]
    ELSE Append(deviceMap, dev)

has(deviceMap, ip) == \E i \in DOMAIN deviceMap : deviceMap[i].ip = ip

\* the device record NetworkMap makes of a matching discovery event
deviceOf(d, rogueIps) ==
    LET hostname == IF d.hostname = "None" \/ d.hostname = "" THEN d.ip ELSE d.hostname
        gatewayLike == endsWithOctet(d.ip, 1) \/ endsWithOctet(d.ip, 254)
        type == IF includesExternal(hostname) THEN "external"
                ELSE IF gatewayLike THEN "gateway"
                ELSE "device"
    IN  [ip |-> d.ip, mac |-> d.mac, hostname |-> hostname, type |-> type,
         isRogue |-> d.ip \in rogueIps]

\* NetworkMap "1. Process Nodes"
RECURSIVE processNodes(_, _, _)
processNodes(allLogs, deviceMap, rogueIps) ==
    IF allLogs = <<>> THEN deviceMap
    ELSE LET log == Head(allLogs)
         IN  processNodes(Tail(allLogs),
                 IF log.event_type = "DEVICE_DISCOVERED" /\ log.data.match
                 THEN put(deviceMap, deviceOf(log.data, rogueIps))
                 ELSE deviceMap,
                 rogueIps)

\* the simplified node NetworkMap adds for an endpoint it has not seen
simplified(ip, rogueIps) ==
    [ip |-> ip, mac |-> "Unknown", hostname |-> ip, type |-> "external",
     isRogue |-> ip \in rogueIps]

ensure(deviceMap, ip, rogueIps) ==
    IF has(deviceMap, ip) THEN deviceMap ELSE Append(deviceMap, simplified(ip, rogueIps))

edgeIds(edgesList) == { edgesList[i].id : i \in DOMAIN edgesList }

\* NetworkMap "2. Process Edges": the result is the device map and the edge list
RECURSIVE processEdges(_, _, _, _)
processEdges(allLogs, deviceMap, edgesList, rogueIps) ==
    IF allLogs = <<>> THEN [deviceMap |-> deviceMap, edgesList |-> edgesList]
    ELSE LET log == Head(allLogs)
         IN  IF log.event_type = "COMMUNICATION_PATTERN" /\ log.data.match
             THEN LET from == log.data.from
                      to == log.data.to
                      edgeId == <<"e", from, to>>
                  IN  processEdges(Tail(allLogs),
                          ensure(ensure(deviceMap, from, rogueIps), to, rogueIps),
                          IF edgeId \in edgeIds(edgesList) THEN edgesList
                          ELSE Append(edgesList,
                                      [id |-> edgeId, source |-> from, target |-> to]),
                          rogueIps)
             ELSE processEdges(Tail(allLogs), deviceMap, edgesList, rogueIps)

\* Object.values(deviceMap).find(d => d.type === 'gateway'): its index, 0 if none
gatewayIndex(deviceMap) ==
    LET gs == { i \in DOMAIN deviceMap : deviceMap[i].type = "gateway" }
    IN  IF gs = {} THEN 0 ELSE CHOOSE i \in gs : \A j \in gs : i <= j

\* as if the infrastructure edge were added whatever traffic edges exist
needsInfrastructure_always(dev, gatewayIp, edgesSet) ==
    dev.ip # gatewayIp /\ dev.type = "device"

\* the conditions under which a device gets an infrastructure edge
needsInfrastructure(dev, gatewayIp, edgesSet) ==
    LET trafficEdgeExists ==
            \/ <<"e", gatewayIp, dev.ip>> \in edgesSet
            \/ <<"e", dev.ip, gatewayIp>> \in edgesSet
    IN  dev.ip # gatewayIp /\ dev.type = "device" /\ ~trafficEdgeExists

\* NetworkMap "3. Infrastructure Edges": devices i.. of the map, in order
RECURSIVE infrastructure(_, _, _, _, _)
infrastructure(deviceMap, i, gatewayIp, edgesSet, edgesList) ==
    IF i > Len(deviceMap) THEN edgesList
    ELSE LET dev == deviceMap[i]
         IN  infrastructure(deviceMap, i + 1, gatewayIp, edgesSet,
                 IF needsInfrastructure(dev, gatewayIp, edgesSet)
                 THEN Append(edgesList,
                             [id |-> <<"infra", gatewayIp, dev.ip>>,
                              source |-> gatewayIp, target |-> dev.ip])
                 ELSE edgesList)

\* fetchNetworkData of NetworkMap, from the responses to its three requests
NetworkMap_build(in) ==
    LET allLogs == in.logs \o in.patternLogs
        rogueIps == rogueIpsOf(in.anomalies)
        step2 == processEdges(allLogs, processNodes(allLogs, <<>>, rogueIps), <<>>, rogueIps)
        g == gatewayIndex(step2.deviceMap)
    IN  [nodes |-> step2.deviceMap,
         edges |-> IF g = 0 THEN step2.edgesList
                   ELSE infrastructure(step2.deviceMap, 1, step2.deviceMap[g].ip,
                                       edgeIds(step2.edgesList), step2.edgesList)]

\* const count = countMatch ? parseInt(countMatch[1]) : 1
countOf(d) == IF d.connections > 0 THEN d.connections ELSE 1

\* existingEdge.count += count, or edges.push({from, to, count})
accumulate(edges, from, to, count) ==
    LET hit == { i \in DOMAIN edges :
                   \/ edges[i].from = from /\ edges[i].to = to
                   \/ edges[i].from = to /\ edges[i].to = from }
    IN  IF hit # {}
        THEN LET idx == CHOOSE i \in hit : \A j \in hit : i <= j
             IN  [edges EXCEPT ![idx].count = @ + count]
        ELSE Append(edges, [from |-> from, to |-> to, count |-> count])

\* hostname = null for "None" and ""; null is written "null"
topologyDevice(d) ==
    [ip |-> d.ip, mac |-> d.mac,
     hostname |-> IF d.hostname = "None" \/ d.hostname = "" THEN "null" ELSE d.hostname]

\* fetchNetworkData of NetworkTopology
RECURSIVE NetworkTopology_build(_, _, _)
NetworkTopology_build(allLogs, devices, edges) ==
    IF allLogs = <<>> THEN [nodes |-> devices, edges |-> edges]
    ELSE LET log == Head(allLogs)
         IN  IF log.event_type = "DEVICE_DISCOVERED"
             THEN NetworkTopology_build(Tail(allLogs),
                      IF log.data.match THEN put(devices, topologyDevice(log.data))
                      ELSE devices,
                      edges)
             ELSE IF log.event_type = "COMMUNICATION_PATTERN" /\ log.data.match
             THEN NetworkTopology_build(Tail(allLogs), devices,
                      accumulate(edges, log.data.from, log.data.to, countOf(log.data)))
             ELSE NetworkTopology_build(Tail(allLogs), devices, edges)

TopoPages == {"NetworkMap.tsx", "NetworkTopology.tsx"}

\* sequences over S of length at most n
RECURSIVE SeqsWithin(_, _)
SeqsWithin(S, n) ==
    IF n = 0 THEN { <<>> }
    ELSE LET shorter == SeqsWithin(S, n - 1)
         IN  shorter \cup { Append(q, x) : q \in shorter, x \in S }

TopoInputs ==
    [logs : SeqsWithin(DiscoveryLogs, MaxDiscovery),
     patternLogs : SeqsWithin(PatternLogs, MaxPatterns),
     anomalies : AnomalyFeeds]

\* the graphs the components hold
Graph == [nodes |-> mapNodes, edges |-> mapEdges, data |-> networkData]

\* NetworkMap: the effect runs (mount, or refreshTrigger after 5 s) and the
\* three responses arrive: setNodes, setEdges
NetworkMap_fetchNetworkData ==
    /\ page = "NetworkMap.tsx"
    /\ rebuilds < MaxRebuilds
    /\ rebuilds' = rebuilds + 1
    /\ prevGraph' = Graph
    /\ LET built == NetworkMap_build(topoIn)
       IN  /\ mapNodes' = built.nodes
           /\ mapEdges' = built.edges
    /\ UNCHANGED <<topoIn, networkData>>
    /\ UNCHANGED <<malformed, pendingFlush, critVars, dashVars, restVars>>
    /\ UNCHANGED pipeVars
    /\ UNCHANGED connVars

\* as if the edge list outlived the call
fetch_edges_kept == networkData.edges

\* const edges: Edge[] = []: every call of fetchNetworkData starts a new list
fetch_edges == <<>>

\* NetworkTopology: the effect runs and both responses arrive: setNetworkData
NetworkTopology_fetchNetworkData ==
    /\ page = "NetworkTopology.tsx"
    /\ rebuilds < MaxRebuilds
    /\ rebuilds' = rebuilds + 1
    /\ prevGraph' = Graph
    /\ networkData' = NetworkTopology_build(topoIn.logs \o topoIn.patternLogs,
                                             <<>>, fetch_edges)
    /\ UNCHANGED <<topoIn, mapNodes, mapEdges>>
    /\ UNCHANGED <<malformed, pendingFlush, critVars, dashVars, restVars>>
    /\ UNCHANGED pipeVars
    /\ UNCHANGED connVars

TopoInit ==
    /\ page \in TopoPages
    /\ PipeStart
    /\ ConnIdle
    /\ malformed = 0
    /\ pendingFlush = 0
    /\ CritIdle
    /\ DashIdle
    /\ RestIdle
    /\ topoIn \in TopoInputs
    /\ mapNodes = <<>>
    /\ mapEdges = <<>>
    /\ networkData = [nodes |-> <<>>, edges |-> <<>>]
    /\ rebuilds = 0
    /\ prevGraph = NoGraph

TopoNext ==
    \/ NetworkMap_fetchNetworkData
    \/ NetworkTopology_fetchNetworkData

SpecTopo == TopoInit /\ [][TopoNext]_vars

----------------------------------------------------------------------------
(* aggregateLogs as a function of its two parameters *)

RECURSIVE SeqsUpTo(_, _)
SeqsUpTo(S, n) ==
    IF n = 0 THEN {<<>>}
    ELSE LET shorter == SeqsUpTo(S, n - 1)
         IN  shorter \cup { Append(q, x) : q \in shorter, x \in S }

AggInit ==
    /\ PipeInit
    /\ ConnIdle
    /\ LifeInit
    /\ page = "EventTableWrapper"

\* the arguments the function is about to be applied to
AggChoose(ls, w) ==
    /\ chartData = <<>>
    /\ logs = <<>>
    /\ ls # <<>>
    /\ logs' = ls
    /\ filters_bucketMinutes' = w
    /\ UNCHANGED <<page, chartData, liveStats, bufferRef, flushTimerRef,
                   stats, chartReqs, now, nMsgs>>
    /\ UNCHANGED connVars
    /\ UNCHANGED lifeVars

AggApply ==
    /\ chartData = <<>>
    /\ logs # <<>>
    /\ chartData' = aggregateLogs(logs, filters_bucketMinutes)
    /\ UNCHANGED <<page, logs, liveStats, bufferRef, flushTimerRef,
                   stats, chartReqs, filters_bucketMinutes, now, nMsgs>>
    /\ UNCHANGED connVars
    /\ UNCHANGED lifeVars

AggNext ==
    \/ \E ls \in SeqsUpTo(Events, StoreCap), w \in bucketOptions : AggChoose(ls, w)
    \/ AggApply

SpecAgg == AggInit /\ [][AggNext]_vars

----------------------------------------------------------------------------
(* EventTable: the severity badge of an event type *)

\* String.prototype.split(','): the pieces between the commas
RECURSIVE split(_)
split(s) ==
    LET commas == { i \in DOMAIN s : s[i] = "," }
    IN  IF commas = {} THEN <<s>>
        ELSE LET c == CHOOSE i \in commas : \A j \in commas : i <= j
             IN  <<SubSeq(s, 1, c - 1)>> \o split(SubSeq(s, c + 1, Len(s)))

\* severities.x.split(',').map(t => t.trim().toUpperCase()).filter(t => t)
patternsOf(s) ==
    LET pieces == split(s)
    IN  { trim(pieces[i]) : i \in DOMAIN pieces } \ { <<>> }
upperPatternsOf(s) == { toUpperCase(t) : t \in patternsOf(s) }

\* getSeverityConfig(eventType): the badge variant or class it returns
getSeverityConfig(eventType, sev) ==
    LET type == toUpperCase(eventType)
    IN  IF \E ct \in upperPatternsOf(sev.critical) : includes(type, ct) THEN "destructive"
        ELSE IF \E wt \in upperPatternsOf(sev.warning) : includes(type, wt) THEN "warning"
        ELSE IF \E it \in upperPatternsOf(sev.info) : includes(type, it) THEN "info"
        ELSE "default"

FAIL == <<"F", "a", "i", "l">>

\* the event types a cell may show
SevTypes == { ERROR, INFO, FAIL, <<>>, <<"l", "o", "t">> }

\* the comma-separated lists the server may hold for a severity
CriticalLists ==
    { <<>>, <<" ">>, <<",">>, <<"e", "r", "r", "o", "r">>,
      <<"E", "R", "R", "O", "R", ",", " ", "f", "a", "i", "l", " ">> }
WarningLists == { <<>>, <<"f", "a", "i", "l">>, <<"r", ",", " ", ",">> }
InfoLists == { <<>>, <<"I", "n", "f", "o">> }

SeverityTables ==
    [critical : CriticalLists, warning : WarningLists, info : InfoLists]

\* loadSeverities: setSeverities; the cells are rendered anew
EventTable_loadSeverities(sev) ==
    /\ page = "EventTableWrapper"
    /\ severities' = sev
    /\ badge' = NoBadge
    /\ UNCHANGED <<malformed, pendingFlush, critVars, dashVars, topoVars, setupVars,
                   loadVars>>
    /\ UNCHANGED pipeVars
    /\ UNCHANGED connVars

\* the "Event Type" cell of a row is rendered
EventTable_cell(eventType) ==
    /\ page = "EventTableWrapper"
    /\ badge' = [rendered |-> TRUE, eventType |-> eventType,
                 severity |-> getSeverityConfig(eventType, severities)]
    /\ UNCHANGED severities
    /\ UNCHANGED <<malformed, pendingFlush, critVars, dashVars, topoVars, setupVars,
                   loadVars>>
    /\ UNCHANGED pipeVars
    /\ UNCHANGED connVars

SevInit ==
    /\ page = "EventTableWrapper"
    /\ PipeStart
    /\ ConnIdle
    /\ LifeInit

SevNext ==
    \/ \E sev \in SeverityTables : EventTable_loadSeverities(sev)
    \/ \E ty \in SevTypes : EventTable_cell(ty)
    \/ \E D \in Snapshots : wrapper_getLogs_then(D)

SpecSev == SevInit /\ [][SevNext]_vars

----------------------------------------------------------------------------
(* The WebSocket effect set up again: EventTableWrapper and the Index page *)
(* of part_010, each run of the effect with its own closure               *)

SetupPages == {"EventTableWrapper", "part_010"}

\* the locals of a new run of the effect
newRun == [closedByUser |-> FALSE, reconnectAttempts |-> 0, timer |-> 0]

\* new WebSocket(wsUrl) in run r
newSocket(r) == [run |-> r, state |-> "CONNECTING"]

\* the sockets run r has created
socketsOf(r) == { c \in DOMAIN conns : conns[c].run = r }

\* the socket the cleanup of run r closes: EventTableWrapper assigns ws in
\* every connect(), the Index page holds what connectWebSocket returned
wsOf(r) ==
    IF page = "EventTableWrapper"
    THEN CHOOSE c \in socketsOf(r) : \A d \in socketsOf(r) : d <= c
    ELSE CHOOSE c \in socketsOf(r) : \A d \in socketsOf(r) : c <= d

\* ws.onopen
effect_ws_onopen(c) ==
    /\ c \in DOMAIN conns
    /\ conns[c].state = "CONNECTING"
    /\ conns' = [conns EXCEPT ![c].state = "OPEN"]
    /\ effects' = IF page = "part_010"
                  THEN [effects EXCEPT ![conns[c].run].reconnectAttempts =
                                           onopenAttempts(@)]
                  ELSE effects
    /\ UNCHANGED copies
    /\ UNCHANGED <<malformed, pendingFlush, critVars, dashVars, topoVars, sevVars,
                   loadVars>>
    /\ UNCHANGED pipeVars
    /\ UNCHANGED connVars

\* ws.onclose: the handler of EventTableWrapper (setTimeout(connect, 2000)
\* unless closedByUser) or of the connector of part_010
effect_ws_onclose(c, code) ==
    /\ c \in DOMAIN conns
    /\ code \in CloseCodes(conns[c].state)
    /\ conns' = [conns EXCEPT ![c].state = "CLOSED"]
    /\ LET r == conns[c].run
           run == effects[r]
       IN  effects' =
             IF page = "EventTableWrapper"
             THEN IF ~run.closedByUser
                  THEN [effects EXCEPT ![r].timer = wrapperReconnectDelay]
                  ELSE effects
             ELSE IF shouldReconnect(code, run.reconnectAttempts)
                  THEN [effects EXCEPT
                          ![r].reconnectAttempts = oncloseAttempts(code, @),
                          ![r].timer = backoffDelay(oncloseAttempts(code, run.reconnectAttempts))]
                  ELSE effects
    /\ UNCHANGED copies
    /\ UNCHANGED <<malformed, pendingFlush, critVars, dashVars, topoVars, sevVars,
                   loadVars>>
    /\ UNCHANGED pipeVars
    /\ UNCHANGED connVars

\* the reconnect timer of run r fires: connect()
effect_reconnectTimer(r) ==
    /\ r \in DOMAIN effects
    /\ effects[r].timer # 0
    /\ Len(conns) < MaxConns
    /\ effects' = [effects EXCEPT ![r].timer = 0]
    /\ conns' = Append(conns, newSocket(r))
    /\ UNCHANGED copies
    /\ UNCHANGED <<malformed, pendingFlush, critVars, dashVars, topoVars, sevVars,
                   loadVars>>
    /\ UNCHANGED pipeVars
    /\ UNCHANGED connVars

\* a dependency of the effect changes: React runs the cleanup of the present
\* run and then the effect again
effect_rerun ==
    /\ Len(effects) < MaxRuns
    /\ Len(conns) < MaxConns
    /\ LET r == Len(effects)
           cleaned == IF page = "EventTableWrapper"
                      THEN [effects EXCEPT ![r].closedByUser = TRUE]
                      ELSE effects
           closed == [conns EXCEPT ![wsOf(r)].state = closing(@)]
       IN  /\ effects' = Append(cleaned, newRun)
           /\ conns' = Append(closed, newSocket(r + 1))
    /\ UNCHANGED copies
    /\ UNCHANGED <<malformed, pendingFlush, critVars, dashVars, topoVars, sevVars,
                   loadVars>>
    /\ UNCHANGED pipeVars
    /\ UNCHANGED connVars

\* the server broadcasts one message: every open socket gets it and calls
\* the onMessage of its run
effect_broadcast ==
    /\ \E c \in DOMAIN conns : conns[c].state = "OPEN"
    /\ copies' = Cardinality({ c \in DOMAIN conns : conns[c].state = "OPEN" })
    /\ UNCHANGED <<effects, conns>>
    /\ UNCHANGED <<malformed, pendingFlush, critVars, dashVars, topoVars, sevVars,
                   loadVars>>
    /\ UNCHANGED pipeVars
    /\ UNCHANGED connVars

\* the component has mounted: the effect has run once
SetupInit ==
    /\ page \in SetupPages
    /\ PipeStart
    /\ ConnIdle
    /\ malformed = 0
    /\ pendingFlush = 0
    /\ CritIdle
    /\ DashIdle
    /\ TopoIdle
    /\ SevIdle
    /\ LoadIdle
    /\ effects = <<newRun>>
    /\ conns = <<newSocket(1)>>
    /\ copies = 0

SetupNext ==
    \/ \E c \in 1..MaxConns : effect_ws_onopen(c)
    \/ \E c \in 1..MaxConns, code \in {1000, 1005, 1006} : effect_ws_onclose(c, code)
    \/ \E r \in 1..MaxRuns : effect_reconnectTimer(r)
    \/ effect_rerun
    \/ effect_broadcast

SpecSetup == SetupInit /\ [][SetupNext]_vars

----------------------------------------------------------------------------
(* Snapshot loads that fail: loadData of the Index pages and the snapshot   *)
(* effect of EventTableWrapper                                              *)

LoadPages == {"Index.tsx", "part_010", "EventTableWrapper"}

\* the four parts of the engine state a snapshot load writes
Four == <<logs, stats, chartData, liveStats>>

\* err instanceof Error ? err.message : "Failed to load data"
errorMessage == "Failed to load data"

\* loadData up to its first await: setIsLoading(true); setError(null)
loadData_begin(D) ==
    /\ isLoading' = TRUE
    /\ error' = "null"
    /\ call' = [at |-> "getStats", D |-> D, before |-> Four]
    /\ issued' = issued + 1

\* the load has ended: what it was given, and the engine state before and after
ended(outcome) ==
    loadLog' = [n |-> loadLog.n + 1, outcome |-> outcome, D |-> call.D,
                before |-> call.before, after |-> Four']

\* the button "Retry Connection" of the error view: onClick={loadData}
Index_retry(D) ==
    /\ page \in {"Index.tsx", "part_010"}
    /\ error # "null"
    /\ call.at = "idle"
    /\ issued < MaxLoads
    /\ loadData_begin(D)
    /\ UNCHANGED loadLog
    /\ UNCHANGED <<malformed, pendingFlush, critVars, dashVars, topoVars, sevVars,
                   setupVars>>
    /\ UNCHANGED pipeVars
    /\ UNCHANGED connVars

\* await siemApi.getStats(...) returns; part_010 then calls setStats(statsResponse)
Index_getStats_then ==
    /\ page \in {"Index.tsx", "part_010"}
    /\ call.at = "getStats"
    /\ call' = [call EXCEPT !.at = "getLogs"]
    /\ stats' = IF page = "part_010"
                THEN [isNull |-> FALSE, histogram |-> ServerHistogram(Scoped(call.D))]
                ELSE stats
    /\ UNCHANGED <<page, logs, chartData, liveStats, bufferRef, flushTimerRef,
                   chartReqs, filters_bucketMinutes, now, nMsgs>>
    /\ UNCHANGED <<error, isLoading, loadLog, issued>>
    /\ UNCHANGED <<malformed, pendingFlush, critVars, dashVars, topoVars, sevVars,
                   setupVars>>
    /\ UNCHANGED connVars

\* await siemApi.getLogs(...) returns: the rest of the try block, then finally
Index_getLogs_then ==
    /\ page \in {"Index.tsx", "part_010"}
    /\ call.at = "getLogs"
    /\ stats' = [isNull |-> FALSE, histogram |-> ServerHistogram(Scoped(call.D))]
    /\ liveStats' = ServerAggregates(Scoped(call.D), now)
    /\ chartData' = ServerTimeseries(Scoped(call.D), filters_bucketMinutes)
    /\ logs' = ServerItems(Scoped(call.D), StoreCap)
    /\ isLoading' = FALSE
    /\ call' = NoCall
    /\ UNCHANGED <<page, bufferRef, flushTimerRef, chartReqs, filters_bucketMinutes,
                   now, nMsgs>>
    /\ UNCHANGED <<error, issued>>
    /\ UNCHANGED <<malformed, pendingFlush, critVars, dashVars, topoVars, sevVars,
                   setupVars>>
    /\ UNCHANGED connVars
    /\ ended("ok")

\* the request awaited throws: catch (setError, toast), then finally
Index_loadData_catch ==
    /\ page \in {"Index.tsx", "part_010"}
    /\ call.at \in {"getStats", "getLogs"}
    /\ error' = errorMessage
    /\ isLoading' = FALSE
    /\ call' = NoCall
    /\ UNCHANGED issued
    /\ UNCHANGED <<malformed, pendingFlush, critVars, dashVars, topoVars, sevVars,
                   setupVars>>
    /\ UNCHANGED pipeVars
    /\ UNCHANGED connVars
    /\ ended("failed")

\* EventTableWrapper: siemApi.getLogs(...).then(res => ...) is fulfilled
wrapper_getLogs_fulfilled ==
    /\ page = "EventTableWrapper"
    /\ call.at = "getLogs"
    /\ LET items == ServerItems(call.D, StoreCap)
       IN  /\ logs' = items
           /\ chartData' = aggregateLogs(items, DefaultBucketMinutes)
           /\ liveStats' = calculateStats(items, now)
    /\ call' = NoCall
    /\ UNCHANGED <<page, bufferRef, flushTimerRef, stats, chartReqs,
                   filters_bucketMinutes, now, nMsgs>>
    /\ UNCHANGED <<error, isLoading, issued>>
    /\ UNCHANGED <<malformed, pendingFlush, critVars, dashVars, topoVars, sevVars,
                   setupVars>>
    /\ UNCHANGED connVars
    /\ ended("ok")

\* EventTableWrapper: the promise is rejected; no handler is attached
wrapper_getLogs_rejected ==
    /\ page = "EventTableWrapper"
    /\ call.at = "getLogs"
    /\ call' = NoCall
    /\ UNCHANGED <<error, isLoading, issued>>
    /\ UNCHANGED <<malformed, pendingFlush, critVars, dashVars, topoVars, sevVars,
                   setupVars>>
    /\ UNCHANGED pipeVars
    /\ UNCHANGED connVars
    /\ ended("failed")

\* EventTableWrapper: debouncedSearch changes and the snapshot effect runs again
wrapper_getLogs(D) ==
    /\ page = "EventTableWrapper"
    /\ call.at = "idle"
    /\ issued < MaxLoads
    /\ call' = [at |-> "getLogs", D |-> D, before |-> Four]
    /\ issued' = issued + 1
    /\ UNCHANGED <<error, isLoading, loadLog>>
    /\ UNCHANGED <<malformed, pendingFlush, critVars, dashVars, topoVars, sevVars,
                   setupVars>>
    /\ UNCHANGED pipeVars
    /\ UNCHANGED connVars

\* the page has mounted and its effect has begun the first load
LoadInit ==
    /\ page \in LoadPages
    /\ PipeStart
    /\ ConnIdle
    /\ malformed = 0
    /\ pendingFlush = 0
    /\ CritIdle
    /\ DashIdle
    /\ TopoIdle
    /\ SevIdle
    /\ SetupIdle
    /\ error = "null"
    /\ isLoading = (page # "EventTableWrapper")
    /\ loadLog = NoLoad
    /\ issued = 1
    /\ \E D \in Snapshots :
          call = [at |-> IF page = "EventTableWrapper" THEN "getLogs" ELSE "getStats",
                  D |-> D, before |-> Four]

LoadNext ==
    \/ \E D \in Snapshots : Index_retry(D)
    \/ Index_getStats_then
    \/ Index_getLogs_then
    \/ Index_loadData_catch
    \/ \E D \in Snapshots : wrapper_getLogs(D)
    \/ wrapper_getLogs_fulfilled
    \/ wrapper_getLogs_rejected

SpecLoad == LoadInit /\ [][LoadNext]_vars

----------------------------------------------------------------------------
(* Properties *)

Range(q) == { q[i] : i \in DOMAIN q }

SortedDesc(ls) ==
    \A i, j \in DOMAIN ls : i < j => ls[i].created_at >= ls[j].created_at

\* the flush timer of EventTableWrapper fires in this step
FlushStep ==
    page = "EventTableWrapper" /\ flushTimerRef = "timer" /\ flushTimerRef' = "null"

\* C1: after any sequence of snapshot loads and live-event ingests the
\* recent-event store never holds more events than its capacity.
C1_StoreWithinCapacity == Len(logs) <= StoreCap

\* C2: after every flush the store of EventTableWrapper is ordered by event
\* timestamp descending, and an event of the batch or of the previous store
\* is absent from the new store only if the store holds capacity-many events
\* at least as recent.
C2_StoreMostRecentFirst ==
    [][FlushStep =>
         /\ SortedDesc(logs')
         /\ \A e \in Range(bufferRef) \cup Range(logs) :
                e \notin Range(logs') =>
                    Cardinality({ i \in DOMAIN logs' :
                                    logs'[i].created_at >= e.created_at }) >= StoreCap
      ]_vars

\* the bucket width the time histogram of the page is kept in
ChartWidth ==
    IF page \in {"part_010", "part_011"} THEN filters_bucketMinutes
    ELSE DefaultBucketMinutes

Times == { e.created_at : e \in Events } \cup (ClockStart..(ClockStart + MaxTicks))

\* bucket boundaries around the times that occur
WindowEdges(w) ==
    { (t \div w) * w : t \in Times } \cup { (t \div w) * w + w : t \in Times }

RECURSIVE SumCounts(_)
SumCounts(q) == IF q = <<>> THEN 0 ELSE Head(q).count + SumCounts(Tail(q))

BucketSum(t0, t1) ==
    SumCounts(SelectSeq(chartData, LAMBDA b : t0 <= b.bucket /\ b.bucket < t1))

StoredIn(t0, t1) ==
    Cardinality({ i \in DOMAIN logs :
                    t0 <= logs[i].created_at /\ logs[i].created_at < t1 })

\* the histogram and the store agree on every bucket-aligned window
Balanced ==
    \A t0, t1 \in WindowEdges(ChartWidth) :
        t0 < t1 => BucketSum(t0, t1) = StoredIn(t0, t1)

\* the step changes the store or the histogram
IngestStep == logs' # logs \/ chartData' # chartData

\* the live-message handler of a page runs in this step
LiveStep == nMsgs' # nMsgs

\* C3: after every snapshot load and every flush of EventTableWrapper, and
\* after every live event the part_010 page ingests, for every bucket-aligned
\* time window the counts of the histogram buckets covering the window add up
\* to the number of events in the store whose timestamp lies in the window.
C3_BucketsCountStore ==
    [][(IngestStep /\ (page = "EventTableWrapper" \/ (page = "part_010" /\ LiveStep)))
          => Balanced']_vars

\* floor(timestamp / width) * width
FlooredTo(t, w) == (t \div w) * w

ErrorBatch == { e \in Events : e.id \in {1, 2, 3} }

\* C5: with bucket width 5 minutes and an empty store, flushing one batch of
\* the three ERROR events at 10:02, 10:04 and 10:07 yields exactly the buckets
\* 10:00 -> 2 and 10:05 -> 1, and the critical statistic rises by exactly 3.
C5_ExampleBatch ==
    [][(FlushStep /\ logs = <<>> /\ Len(bufferRef) = 3 /\ Range(bufferRef) = ErrorBatch) =>
         /\ chartData' = << [bucket |-> T(10, 0), count |-> 2],
                            [bucket |-> T(10, 5), count |-> 1] >>
         /\ liveStats'.critical = liveStats.critical + 3
      ]_vars

\* the batch has been flushed into the store, in arrival order
C5_Witness ==
    /\ page = "EventTableWrapper"
    /\ Len(logs) = 3
    /\ \A i \in 1..3 : logs[i].id = i
    /\ bufferRef = <<>>
    /\ liveStats.critical = 3
    /\ Len(chartData) = 2

\* C6 as stated: after an abnormal drop of the open connection followed by
\* N consecutive failed reconnect attempts, N below the retry cap, the
\* attempt counter equals N.
C6_AttemptsEqualFailures ==
    (api = "part_010" /\ dropSeen /\ failed < maxReconnectAttempts) =>
        reconnectAttempts = failed

\* C6 (amended): after an abnormal drop of the open connection followed by
\* N consecutive failed reconnect attempts, N below the retry cap, the
\* attempt counter equals N + 1: it counts the reconnects scheduled, the one
\* for the drop included.  Where the page has replaced the close handler of
\* the socket that dropped, nothing is scheduled and the counter equals N = 0.
C6_AttemptsCountScheduled ==
    (api = "part_010" /\ dropSeen /\ failed < maxReconnectAttempts) =>
        reconnectAttempts = IF Handler(1) = "connector" THEN failed + 1 ELSE failed

\* three reconnect attempts have failed after a drop
C6_Witness ==
    /\ api = "part_010"
    /\ dropSeen
    /\ failed = 3
    /\ reconnectAttempts = 4

\* a socket opens in this step
OpenStep == \E s \in DOMAIN sock : sock[s] = "CONNECTING" /\ sock'[s] = "OPEN"

\* C7: the attempt counter is set to 0 when, and only when, a connection
\* opens; every other step leaves it unchanged or increases it by one.
C7_ResetOnlyOnOpen ==
    [][/\ OpenStep => reconnectAttempts' = 0
       /\ ~OpenStep => reconnectAttempts' \in {reconnectAttempts, reconnectAttempts + 1}
      ]_vars

\* a reconnect has opened after failed attempts, and the counter is back at 0
C7_Witness ==
    /\ api = "part_010"
    /\ Len(sock) >= 3
    /\ sock[Len(sock)] = "OPEN"
    /\ reconnectAttempts = 0

\* the connector has given up: the counter is at the cap, no reconnect is
\* pending and every socket it created is closed
GaveUp ==
    /\ api = "part_010"
    /\ reconnectAttempts = maxReconnectAttempts
    /\ timer = 0
    /\ \A s \in DOMAIN sock : sock[s] = "CLOSED"

\* C8: the attempt counter never exceeds the maximum retry count; once the
\* retries are exhausted the caller is shown a Disconnected state, and no
\* further reconnect is scheduled or made.
C8_TerminalDisconnected ==
    [][/\ reconnectAttempts' <= maxReconnectAttempts
       /\ GaveUp' => ~isConnected
       /\ GaveUp => (timer' = 0 /\ Len(sock') = Len(sock))
      ]_vars

\* a reconnect is scheduled in this step
ScheduleStep == timer = 0 /\ timer' # 0

\* the attempt number of the reconnect being scheduled: the counter of
\* part_010, and for EventTableWrapper, which keeps no counter, the closes
\* since the connection last opened
AttemptK ==
    IF api = "part_010" THEN reconnectAttempts
    ELSE (IF dropSeen THEN 1 ELSE 0) + failed

BaseDelay ==
    IF page = "EventTableWrapper" THEN wrapperReconnectDelay ELSE reconnectDelay

\* C9: the reconnect scheduled when the attempt counter is k uses the delay
\* base * 2^k.  (The code configures no maximum delay to compare with.)
C9_ExponentialBackoff ==
    [][ScheduleStep => timer' = BaseDelay * 2 ^ AttemptK]_vars

\* the handle has been closed
Closed == closeCalls > 0

Live(state) == state \in {"CONNECTING", "OPEN"}

\* C10: once the handle is closed there is no pending reconnect timer and no
\* open connection, no new connection is opened and the callback is not
\* invoked again; a second close changes nothing.
C10_CloseIsFinal ==
    [][/\ Closed' => /\ timer' = 0
                     /\ \A s \in DOMAIN sock' : ~Live(sock'[s])
       /\ Closed => /\ Len(sock') = Len(sock)
                    /\ delivered' = delivered
                    /\ (closeCalls' # closeCalls =>
                            UNCHANGED <<sock, timer, reconnectAttempts, closedByUser>>)
      ]_vars

\* socket s closes in this step without close() having been called on it
UnrequestedClose(s) ==
    /\ s \in DOMAIN sock
    /\ Live(sock[s])
    /\ sock'[s] = "CLOSED"

\* C11: whenever the live connection closes without the caller having
\* requested it and the retry cap has not been reached, a reconnect is
\* scheduled, whichever page consumes the connector and whichever handlers
\* it has attached to the returned socket.
C11_ReconnectScheduled ==
    [][\A s \in DOMAIN sock :
          (UnrequestedClose(s) /\ reconnectAttempts < maxReconnectAttempts)
              => timer' # 0
      ]_vars

\* a message whose payload cannot be parsed is received in this step
MalformedStep == malformed' # malformed

\* C12: a live-feed message whose payload cannot be parsed leaves the store,
\* the buffer, the buckets and the statistics unchanged, increments the count
\* of dropped messages, and leaves the connection open, so that later valid
\* messages are still delivered.
C12_MalformedDroppedAndCounted ==
    [][MalformedStep =>
         /\ UNCHANGED <<logs, bufferRef, chartData, liveStats, stats>>
         /\ UNCHANGED <<sock, timer, delivered>>
         /\ droppedCount' = droppedCount + 1
      ]_vars

\* C13: whenever the buffer of EventTableWrapper is non-empty a flush timer
\* is pending, so that every buffered event is delivered to the store by a
\* later flush, also when the event arrives after the ingestion effect has
\* been torn down and set up again.
C13_BufferedEventsHaveTimer ==
    (page = "EventTableWrapper" /\ bufferRef # <<>>) => flushTimerRef = "timer"

\* the buffer of the wrapper is emptied in this step
ClearStep ==
    /\ page \in WrapperPages
    /\ bufferRef # <<>>
    /\ bufferRef' = <<>>

\* C14: the step that empties the buffer delivers exactly the buffered
\* events to the store, each once and in arrival order, in front of the
\* events stored before; no event leaves the buffer without being delivered,
\* and no later step delivers buffered events without emptying the buffer.
C14_FlushDeliversBufferOnce ==
    [][/\ ClearStep => logs' = flushedLogs(bufferRef, logs)
       /\ (page \in WrapperPages /\ pendingFlush' < pendingFlush)
             => (logs' = logs \/ bufferRef' = <<>>)
      ]_vars

\* the step adds live events to the store: a flush of the wrapper or the
\* live-message handler of a page
LiveAdd == (FlushStep \/ LiveStep) /\ logs' # logs

\* the histogram and the statistics count every event of the store
Counted(store, chart, st) ==
    SumCounts(chart) = Len(store) /\ st.total >= Len(store)

\* C15: on the EventTableWrapper and Index.tsx pages, the step that adds a
\* live event to the store leaves a state in which the histogram and the
\* statistics count every stored event: no state shows a live event in the
\* store that the histogram does not count yet.
C15_StoreAndHistogramTogether ==
    [][(page \in {"EventTableWrapper", "Index.tsx"} /\ LiveAdd)
          => Counted(logs', chartData', liveStats')]_vars

\* the debounce window of the last criteria change is over
WindowOver == ~debounce.armed

\* C16: when five criteria changes have been made within one debounce window
\* and the window is over, they have caused exactly one snapshot request, and
\* the request issued last carries the criteria of the fifth change.
C16_BurstCoalesced ==
    (page \in {"EventTableWrapper", "part_010"} /\ burst = MaxBurst /\ WindowOver)
        => (burstReqs = 1 /\ lastIssued = searchQuery)

\* a snapshot response is applied in this step
ApplyStep == shownFor'.n # shownFor.n

\* C17: on every page, a snapshot response that is applied belongs to the
\* criteria of the request issued last: the response to a request that a
\* later request for other criteria has superseded is never applied to the
\* store, histogram or statistics, and once no response is awaited the
\* state shown is that of the criteria requested last.
C17_SupersededDiscarded ==
    [][/\ ApplyStep => shownFor'.q = lastIssued
       /\ (ApplyStep /\ inflight' = {}) => shownFor'.q = lastIssued'
      ]_vars

\* e matches the criteria the page has set now: the selected source, the
\* category and the search string
matchesCriteria(e) ==
    /\ page = "Index.tsx" => e.node_id = selectedNode
    /\ matchesEventType(e, filters_eventType)
    /\ matchesSearch(e, searchQuery)

\* C18: on the Index pages, a step of the live-message handler that changes
\* the store, the histogram or the statistics has added to the front of the
\* store an event that matches the criteria set at that time; an event that
\* does not match them leaves all three unchanged.
C18_LiveEventsMatchCriteria ==
    [][(page \in {"Index.tsx", "part_010"} /\ LiveStep
          /\ <<logs, chartData, liveStats, stats>>' # <<logs, chartData, liveStats, stats>>)
         => (logs' # <<>> /\ logs' = Index_setLogs(logs'[1], logs)
               /\ matchesCriteria(logs'[1]))]_vars

\* C19: once the cleanup of the engine has run, no step modifies the store,
\* the buffer, the histogram or the statistics: no pending flush or
\* reconnect timer takes effect and no message of any connection is
\* ingested.
C19_NoMutationAfterTeardown ==
    [][Closed => UNCHANGED <<logs, bufferRef, chartData, liveStats>>]_vars

\* the events of S the dashboard counts as critical
CriticalIn(S) == { x \in S : isCritical(x.event_type) }

\* C20: on the dashboards, the displayed total and critical counts equal the
\* counts of the snapshot applied last plus the number of distinct events
\* received live that this snapshot does not contain, so that no event is
\* counted twice, whatever the order of responses and live messages.
C20_NoDoubleCount ==
    page \in DashPages =>
        /\ liveStats.total =
               Cardinality(snapEvents) + Cardinality(liveSeen \ snapEvents)
        /\ liveStats.critical =
               Cardinality(CriticalIn(snapEvents))
                 + Cardinality(CriticalIn(liveSeen \ snapEvents))

\* C21: the store never holds two entries with the same event id, also when
\* an event is delivered live more than once or is both part of a loaded
\* snapshot and delivered live afterwards.
C21_StoreIdsUnique ==
    \A i, j \in DOMAIN logs : logs[i].id = logs[j].id => i = j

Naming(a, b) ==
    { i \in DOMAIN topoIn.patternLogs :
        LET d == topoIn.patternLogs[i].data
        IN  d.match /\ {d.from, d.to} = {a, b} }

RECURSIVE SumOver(_, _)
SumOver(I, f) ==
    IF I = {} THEN 0
    ELSE LET i == CHOOSE x \in I : TRUE IN f[i] + SumOver(I \ {i}, f)

\* the accumulated connection count of the pair
PairCount(a, b) ==
    SumOver(Naming(a, b), [i \in DOMAIN topoIn.patternLogs |->
                              countOf(topoIn.patternLogs[i].data)])

\* the observed edges of NetworkMap between a and b
MapObserved(a, b) ==
    { i \in DOMAIN mapEdges :
        mapEdges[i].id[1] = "e" /\ {mapEdges[i].source, mapEdges[i].target} = {a, b} }

\* the edges of NetworkTopology between a and b
TopologyObserved(a, b) ==
    { i \in DOMAIN networkData.edges :
        {networkData.edges[i].from, networkData.edges[i].to} = {a, b} }

\* C23: after a rebuild, every unordered pair of devices that some
\* communication event names, in either order, has exactly one observed edge,
\* and where edges carry a weight it is the accumulated connection count of
\* the events naming the pair.
C23_OneEdgePerPair ==
    rebuilds >= 1 =>
        \A a, b \in Addresses :
            (a # b /\ Naming(a, b) # {}) =>
                /\ page = "NetworkMap.tsx" => Cardinality(MapObserved(a, b)) = 1
                /\ page = "NetworkTopology.tsx" =>
                      /\ Cardinality(TopologyObserved(a, b)) = 1
                      /\ \A i \in TopologyObserved(a, b) :
                            networkData.edges[i].count = PairCount(a, b)

\* the inferred edges of NetworkMap between a and b
MapInferred(a, b) ==
    { i \in DOMAIN mapEdges :
        mapEdges[i].id[1] = "infra" /\ {mapEdges[i].source, mapEdges[i].target} = {a, b} }

\* exactly one of: observed edges between a and b, one inferred edge
ObservedOrInferred(a, b) ==
    IF MapObserved(a, b) # {}
    THEN MapInferred(a, b) = {}
    ELSE Cardinality(MapInferred(a, b)) = 1

\* discovery of 192.168.1.1 and 192.168.1.20 and one communication event
\* between them
ExampleTopology ==
    /\ Len(topoIn.logs) = 2
    /\ topoIn.logs[1].data.ip = "192.168.1.1"
    /\ topoIn.logs[2].data.ip = "192.168.1.20"
    /\ \A i \in DOMAIN topoIn.logs : topoIn.logs[i].data.hostname = "None"
    /\ Len(topoIn.patternLogs) = 1
    /\ topoIn.patternLogs[1].data.match
    /\ {topoIn.patternLogs[1].data.from, topoIn.patternLogs[1].data.to}
          = {"192.168.1.1", "192.168.1.20"}

ExampleGraph ==
    /\ Len(mapNodes) = 2
    /\ Len(mapEdges) = 1
    /\ mapEdges[1].id[1] = "e"

\* C24 as stated: after a rebuild of NetworkMap that identifies a gateway,
\* every other node of the graph has observed edges to the gateway or exactly
\* one inferred edge to it, never both; the example gives 2 nodes, 1 edge and
\* no inferred edge.
C24_EveryNodeReachesGateway ==
    (page = "NetworkMap.tsx" /\ rebuilds >= 1) =>
        /\ gatewayIndex(mapNodes) # 0 =>
              \A i \in DOMAIN mapNodes :
                  i # gatewayIndex(mapNodes) =>
                      ObservedOrInferred(mapNodes[gatewayIndex(mapNodes)].ip, mapNodes[i].ip)
        /\ ExampleTopology => ExampleGraph

\* C24, amended: after a rebuild of NetworkMap that identifies a gateway,
\* every other node of category "device" has observed edges to the gateway
\* or exactly one inferred edge to it, never both, and nodes of the other
\* categories have no inferred edge; the example gives 2 nodes, 1 edge and no
\* inferred edge.
C24_EveryDeviceReachesGateway ==
    (page = "NetworkMap.tsx" /\ rebuilds >= 1) =>
        /\ gatewayIndex(mapNodes) # 0 =>
              \A i \in DOMAIN mapNodes :
                  i # gatewayIndex(mapNodes) =>
                      LET g == mapNodes[gatewayIndex(mapNodes)].ip
                      IN  IF mapNodes[i].type = "device"
                          THEN ObservedOrInferred(g, mapNodes[i].ip)
                          ELSE MapInferred(g, mapNodes[i].ip) = {}
        /\ ExampleTopology => ExampleGraph

\* a rebuild with a gateway, a device that talks to it and a node that is
\* no device
C24_Witness ==
    /\ page = "NetworkMap.tsx"
    /\ rebuilds >= 1
    /\ gatewayIndex(mapNodes) # 0
    /\ \E i \in DOMAIN mapNodes :
          /\ mapNodes[i].type = "device"
          /\ MapObserved(mapNodes[gatewayIndex(mapNodes)].ip, mapNodes[i].ip) # {}
    /\ \E i \in DOMAIN mapNodes : mapNodes[i].type = "external"

\* the addresses of a list of nodes
ipsOf(nodeList) == { nodeList[i].ip : i \in DOMAIN nodeList }

\* one node per address
OneNodePerAddress(nodeList) ==
    \A i, j \in DOMAIN nodeList : nodeList[i].ip = nodeList[j].ip => i = j

\* the graph NetworkMap shows has its edges between its nodes
MapEdgesJoinNodes ==
    /\ \A i \in DOMAIN mapEdges :
          {mapEdges[i].source, mapEdges[i].target} \subseteq ipsOf(mapNodes)
    /\ OneNodePerAddress(mapNodes)

\* the graph NetworkTopology shows has its edges between its nodes
TopologyEdgesJoinNodes ==
    /\ \A i \in DOMAIN networkData.edges :
          {networkData.edges[i].from, networkData.edges[i].to}
              \subseteq ipsOf(networkData.nodes)
    /\ OneNodePerAddress(networkData.nodes)

\* C29: after every topology rebuild, both endpoints of every edge, observed
\* or inferred, are nodes of the graph, and the graph has at most one node
\* per device address.
C29_EdgesJoinNodes ==
    rebuilds >= 1 =>
        /\ page = "NetworkMap.tsx" => MapEdgesJoinNodes
        /\ page = "NetworkTopology.tsx" => TopologyEdgesJoinNodes

\* some pattern of the list, trimmed and not empty, is a case-insensitive
\* substring of the category
Matches(category, list) ==
    \E p \in patternsOf(list) :
        p # <<>> /\ includes(toLowerCase(category), toLowerCase(p))

\* the severity class of a category under a rule table
Severity(category, table) ==
    IF Matches(category, table.critical) THEN "destructive"
    ELSE IF Matches(category, table.warning) THEN "warning"
    ELSE IF Matches(category, table.info) THEN "info"
    ELSE "default"

\* the badge shown is the severity class of its category under the table
BadgeByRuleTable ==
    badge.rendered => badge.severity = Severity(badge.eventType, severities)

\* the events of the store the classifier labels critical
LabelledCritical ==
    { i \in DOMAIN logs :
        getSeverityConfig(logs[i].event_type, severities) = "destructive" }

\* C30: the severity class of a category is critical if some non-empty
\* critical pattern of the rule table is a case-insensitive substring of it,
\* otherwise warning, otherwise info, by the same test, otherwise default;
\* empty and whitespace-only patterns match nothing; and the critical
\* statistic counts exactly the events the classifier labels critical.
C30_SeverityByRuleTable ==
    /\ BadgeByRuleTable
    /\ liveStats.critical = Cardinality(LabelledCritical)

\* the number of flush timers pending: the handle holds the one timer that
\* was started and has neither fired nor been cleared
PendingFlushTimers == IF flushTimerRef = "timer" THEN 1 ELSE 0

\* a flush has taken events out of the buffer in this step
FlushCompletes == page = "EventTableWrapper" /\ Len(bufferRef') < Len(bufferRef)

\* C26: at every moment at most one flush timer is pending; the stored timer
\* handle is non-null exactly while a timer is pending; and right after a
\* flush completes the buffer is empty and the handle is null.
C26_HandleTracksFlushTimer ==
    [][ /\ PendingFlushTimers' <= 1
        /\ (flushTimerRef' # "null") <=> (PendingFlushTimers' = 1)
        /\ FlushCompletes => (bufferRef' = <<>> /\ flushTimerRef' = "null")
      ]_vars

\* the connections open or being opened
LiveConns == { c \in DOMAIN conns : conns[c].state \in {"CONNECTING", "OPEN"} }

\* the runs of the effect with a reconnect scheduled
Scheduled == { r \in DOMAIN effects : effects[r].timer # 0 }

\* C27: for one component at most one live-feed connection is open or
\* scheduled to open at any time, across closures, reconnect timers and a
\* teardown followed by a new setup of the effect; hence no live message is
\* ingested twice through two parallel connections.
C27_OneConnection ==
    /\ Cardinality(LiveConns) + Cardinality(Scheduled) <= 1
    /\ copies <= 1

\* a snapshot load fails in this step
LoadFails == loadLog'.n = loadLog.n + 1 /\ loadLog'.outcome = "failed"

\* a snapshot load begins in this step
LoadBegins == issued' # issued

\* the retry action of the error state is taken in this step
ManualRetry == error # "null" /\ LoadBegins

\* C25: when a snapshot request fails the engine enters an explicit error
\* state and clears its loading flag, begins no new request by itself and
\* leaves the store unchanged; the manual retry clears the error state and
\* begins exactly one new snapshot request.
C25_FailureIsErrorState ==
    [][ /\ LoadFails =>
              /\ error' # "null"
              /\ ~isLoading'
              /\ logs' = logs
              /\ ~LoadBegins
              /\ call'.at = "idle"
        /\ ManualRetry =>
              /\ error' = "null"
              /\ issued' = issued + 1
              /\ call'.at # "idle"
      ]_vars

\* what a load given the events D leaves in the engine of an Index page
FromLoad(D) ==
    <<ServerItems(Scoped(D), StoreCap),
      [isNull |-> FALSE, histogram |-> ServerHistogram(Scoped(D))],
      ServerTimeseries(Scoped(D), filters_bucketMinutes),
      ServerAggregates(Scoped(D), now)>>

\* C28: a snapshot load made of a stats request followed by a logs request
\* writes the store, the type histogram, the time series and the statistics
\* all from that load, or, if either request fails, changes none of the four.
C28_LoadAllOrNothing ==
    page \in {"Index.tsx", "part_010"} =>
        /\ loadLog.outcome = "failed" => loadLog.after = loadLog.before
        /\ loadLog.outcome = "ok" => loadLog.after = FromLoad(loadLog.D)

====
